---- MODULE Spec2Model ----
(***************************************************************************)
(* A model of the vehicle search engine of main.py                         *)
(* (VehicleSearchEngine.search_with_fallback and the stages it calls) and  *)
(* of the data.json snapshot shared by the refresh job and the query       *)
(* endpoint.                                                               *)
(*                                                                         *)
(* Representation of Python values                                         *)
(*   text     a sequence of one-character strings, <<"g","o","l">>         *)
(*   a raw JSON / query value   a record [t, n, s]:                        *)
(*       t = "absent"  the key is missing from the dict                    *)
(*       t = "none"    None / JSON null                                    *)
(*       t = "int"     a JSON integer, n its value                         *)
(*       t = "str"     a string, s its text                                *)
(*   Optional[int]     [ok |-> BOOLEAN, v |-> Int]   (ok = FALSE is None)  *)
(*   Optional[float]   the same, v counted in hundredths (centavos)        *)
(***************************************************************************)
EXTENDS Integers, Sequences, FiniteSets, TLC

(***************************************************************************)
(* Program constants                                                       *)
(***************************************************************************)
\* main.py:287 sorted_vehicles[:6]
MaxResults == 6
\* main.py:180 float(valormax) + 25000
PriceMargin == 25000
\* main.py:193 target_year - 3
YearLookback == 3
\* main.py:208 target_km + 30000
KmMargin == 30000
\* main.py:131 max_score >= 80
FuzzyThreshold == 80
\* main.py:118 len(normalized_word) < 2
MinWordLen == 2
\* main.py:126 len(normalized_word) >= 3
MinFuzzyLen == 3

\* the model filter first instead of last
FALLBACK_PRIORITY_ModelFirst == <<"veiculo", "cor", "ano", "km", "valorIdealVenda">>
\* the plate filter among the removable ones
FALLBACK_PRIORITY_WithPlaca == <<"cor", "ano", "km", "placa", "veiculo">>

\* main.py:19-25
FALLBACK_PRIORITY == <<"cor", "ano", "km", "valorIdealVenda", "veiculo">>
\* the range parameters in the order get_data reads them
RANGE_FALLBACK_Reordered == <<"ValorMax", "AnoMax", "KmMax">>

\* main.py:28
RANGE_FALLBACK == <<"KmMax", "AnoMax", "ValorMax">>
\* main.py:42
fuzzy_fields == {"veiculo", "placa", "cor"}

(***************************************************************************)
(* Python values                                                           *)
(***************************************************************************)
Absent == [t |-> "absent", n |-> 0, s |-> <<>>]
None == [t |-> "none", n |-> 0, s |-> <<>>]
IntV(k) == [t |-> "int", n |-> k, s |-> <<>>]
StrV(txt) == [t |-> "str", n |-> 0, s |-> txt]

NoneNum == [ok |-> FALSE, v |-> 0]
Some(k) == [ok |-> TRUE, v |-> k]

\* dict.get(key): a missing key reads as None
Get(x) == IF x.t = "absent" THEN None ELSE x
\* dict.get(key, ""): a missing key reads as ""
GetOrEmpty(x) == IF x.t = "absent" THEN StrV(<<>>) ELSE x

\* Python truthiness: None, 0 and "" are falsy
Truthy(x) ==
    CASE x.t = "int" -> x.n # 0
      [] x.t = "str" -> x.s # <<>>
      [] OTHER -> FALSE

Digits == <<"0", "1", "2", "3", "4", "5", "6", "7", "8", "9">>
DigitSet == {Digits[i] : i \in 1..10}
DigitVal(c) == (CHOOSE i \in 1..10 : Digits[i] = c) - 1

RECURSIVE NatText(_)
NatText(k) == IF k < 10 THEN <<Digits[k + 1]>>
              ELSE NatText(k \div 10) \o <<Digits[(k % 10) + 1]>>

\* str(x)
Str(x) ==
    CASE x.t = "str" -> x.s
      [] x.t = "int" -> IF x.n < 0 THEN <<"-">> \o NatText(-x.n) ELSE NatText(x.n)
      [] OTHER -> <<"N", "o", "n", "e">>

(***************************************************************************)
(* Text primitives (str methods)                                           *)
(***************************************************************************)
Whitespace == {" "}

RECURSIVE Remove(_, _)
\* s.replace(c, "")
Remove(s, c) ==
    IF s = <<>> THEN <<>>
    ELSE IF Head(s) = c THEN Remove(Tail(s), c)
    ELSE <<Head(s)>> \o Remove(Tail(s), c)

RECURSIVE ReplaceChar(_, _, _)
\* s.replace(c, d) for single characters
ReplaceChar(s, c, d) ==
    IF s = <<>> THEN <<>>
    ELSE <<IF Head(s) = c THEN d ELSE Head(s)>> \o ReplaceChar(Tail(s), c, d)

RECURSIVE LStrip(_)
LStrip(s) == IF s # <<>> /\ Head(s) \in Whitespace THEN LStrip(Tail(s)) ELSE s

RECURSIVE RStrip(_)
RStrip(s) ==
    IF s # <<>> /\ s[Len(s)] \in Whitespace THEN RStrip(SubSeq(s, 1, Len(s) - 1)) ELSE s

\* s.strip()
Strip(s) == RStrip(LStrip(s))

RECURSIVE SplitOn(_, _, _)
\* s.split(sep): the pieces between separators, empty pieces kept;
\* cur is the piece being read
SplitOn(s, sep, cur) ==
    IF s = <<>> THEN <<cur>>
    ELSE IF Head(s) = sep THEN <<cur>> \o SplitOn(Tail(s), sep, <<>>)
    ELSE SplitOn(Tail(s), sep, Append(cur, Head(s)))

\* s.split(): split on runs of whitespace, no empty piece
SplitWords(s) == SelectSeq(SplitOn(s, " ", <<>>), LAMBDA w : w # <<>>)

\* a in b for strings
IsSubstring(a, b) ==
    \E i \in 0..(Len(b) - Len(a)) : SubSeq(b, i + 1, i + Len(a)) = a

\* s.replace("R$", "")
RECURSIVE RemoveCurrency(_)
RemoveCurrency(s) ==
    IF Len(s) < 2 THEN s
    ELSE IF s[1] = "R" /\ s[2] = "$" THEN RemoveCurrency(SubSeq(s, 3, Len(s)))
    ELSE <<Head(s)>> \o RemoveCurrency(Tail(s))

RECURSIVE DigitsValue(_, _)
DigitsValue(s, acc) ==
    IF s = <<>> THEN acc ELSE DigitsValue(Tail(s), acc * 10 + DigitVal(Head(s)))

AllDigits(s) == s # <<>> /\ \A i \in 1..Len(s) : s[i] \in DigitSet

\* int(s): optional surrounding whitespace, optional sign, decimal digits;
\* anything else raises ValueError (ok = FALSE)
ParseInt(s) ==
    LET b == Strip(s)
        neg == b # <<>> /\ Head(b) = "-"
        d == IF neg THEN Tail(b) ELSE b
    IN  IF AllDigits(d)
        THEN Some(IF neg THEN -DigitsValue(d, 0) ELSE DigitsValue(d, 0))
        ELSE NoneNum

\* float(s), in hundredths: digits, optionally "." and up to two decimals;
\* anything else raises ValueError (ok = FALSE)
ParseFloat(s) ==
    LET b == Strip(s)
        neg == b # <<>> /\ Head(b) = "-"
        d == IF neg THEN Tail(b) ELSE b
        parts == SplitOn(d, ".", <<>>)
        whole == parts[1]
        frac == IF Len(parts) = 2 THEN parts[2] ELSE <<>>
        fracOk == frac = <<>> \/ (AllDigits(frac) /\ Len(frac) <= 2)
        cents == IF frac = <<>> THEN 0
                 ELSE IF Len(frac) = 1 THEN 10 * DigitsValue(frac, 0)
                 ELSE DigitsValue(frac, 0)
        mag == DigitsValue(whole, 0) * 100 + cents
    IN  IF Len(parts) <= 2 /\ AllDigits(whole) /\ fracOk
        THEN Some(IF neg THEN -mag ELSE mag)
        ELSE NoneNum

(***************************************************************************)
(* Normalizer                                                              *)
(***************************************************************************)
UpperCase == <<"A", "B", "C", "D", "E", "F", "G", "H", "I", "J", "K", "L", "M",
               "N", "O", "P", "Q", "R", "S", "T", "U", "V", "W", "X", "Y", "Z">>
LowerCase == <<"a", "b", "c", "d", "e", "f", "g", "h", "i", "j", "k", "l", "m",
               "n", "o", "p", "q", "r", "s", "t", "u", "v", "w", "x", "y", "z">>

\* unidecode(c).lower() of one character; unidecode is the identity on
\* ASCII, the only characters the model draws
LowerChar(c) ==
    IF \E i \in 1..26 : UpperCase[i] = c
    THEN LowerCase[CHOOSE i \in 1..26 : UpperCase[i] = c]
    ELSE c

\* unidecode(str(text)).lower().replace("-", "").replace(" ", "").strip()
normalize_text(text) ==
    IF text = <<>> THEN <<>>
    ELSE Strip(Remove(Remove([i \in 1..Len(text) |-> LowerChar(text[i])], "-"), " "))

\* convert_price: Optional[float], in hundredths
convert_price(price_str) ==
    IF ~Truthy(price_str) THEN NoneNum
    ELSE IF price_str.t = "int" THEN Some(price_str.n * 100)
    ELSE ParseFloat(Strip(ReplaceChar(Remove(RemoveCurrency(Str(price_str)), "."), ",", ".")))

\* convert_year: Optional[int], the first segment of "2022/2023"
convert_year(year_str) ==
    IF ~Truthy(year_str) THEN NoneNum
    ELSE ParseInt(SplitOn(Strip(Str(year_str)), "/", <<>>)[1])

\* convert_km: Optional[int]
convert_km(km_str) ==
    IF ~Truthy(km_str) THEN NoneNum
    ELSE ParseInt(Strip(Remove(Remove(Str(km_str), "."), ",")))

\* split_multi_value: the comma-separated alternatives, stripped, no empty one
split_multi_value(value) ==
    IF value = <<>> THEN <<>>
    ELSE LET parts == SplitOn(value, ",", <<>>)
             stripped == [i \in 1..Len(parts) |-> Strip(parts[i])]
         IN  SelectSeq(stripped, LAMBDA v : v # <<>>)

(***************************************************************************)
(* Fuzzy matcher.  fuzz.ratio and fuzz.partial_ratio are rapidfuzz's:      *)
(* ratio is the normalized Indel similarity 200 * LCS / (|a| + |b|);       *)
(* partial_ratio is the best ratio of the shorter string against the       *)
(* windows of the longer one (full-length windows, and the shorter         *)
(* prefixes and suffixes at its two ends).                                 *)
(***************************************************************************)
Max(a, b) == IF a >= b THEN a ELSE b
Min(a, b) == IF a <= b THEN a ELSE b

RECURSIVE LCS(_, _)
LCS(a, b) ==
    IF a = <<>> \/ b = <<>> THEN 0
    ELSE IF Head(a) = Head(b) THEN 1 + LCS(Tail(a), Tail(b))
    ELSE Max(LCS(Tail(a), b), LCS(a, Tail(b)))

\* fuzz.ratio, rounded down (the threshold it is compared with is whole)
Ratio(a, b) ==
    IF Len(a) + Len(b) = 0 THEN 100
    ELSE (200 * LCS(a, b)) \div (Len(a) + Len(b))

SetMax(S) == CHOOSE x \in S : \A y \in S : y <= x

\* the best ratio of short against the windows of long
BestWindow(short, long) ==
    LET m == Len(short)
        n == Len(long)
        full == {SubSeq(long, i, i + m - 1) : i \in 1..(n - m + 1)}
        pre == {SubSeq(long, 1, k) : k \in 1..(m - 1)}
        suf == {SubSeq(long, n - k + 1, n) : k \in 1..(m - 1)}
    IN  SetMax({Ratio(short, w) : w \in full \cup pre \cup suf})

\* fuzz.partial_ratio
PartialRatio(a, b) ==
    IF a = <<>> /\ b = <<>> THEN 100
    ELSE IF a = <<>> \/ b = <<>> THEN 0
    ELSE IF Len(a) < Len(b) THEN BestWindow(a, b)
    ELSE IF Len(b) < Len(a) THEN BestWindow(b, a)
    ELSE Max(BestWindow(a, b), BestWindow(b, a))

\* one query word against the normalized content (main.py:117-132)
WordMatches(word, normalized_content) ==
    LET normalized_word == normalize_text(word)
    IN  /\ Len(normalized_word) >= MinWordLen
        /\ \/ IsSubstring(normalized_word, normalized_content)
           \/ /\ Len(normalized_word) >= MinFuzzyLen
              /\ Max(PartialRatio(normalized_content, normalized_word),
                     Ratio(normalized_content, normalized_word)) >= FuzzyThreshold

\* fuzzy_match(query_words, field_content)[0]
fuzzy_match(query_words, field_content) ==
    IF query_words = <<>> \/ field_content = <<>> THEN FALSE
    ELSE \E i \in 1..Len(query_words) :
            WordMatches(query_words[i], normalize_text(field_content))

\* the body of the loop of model_exists_in_database: does a record whose
\* veiculo field holds raw match the query (main.py:96-100)
ModelMatches(raw, model_query) ==
    LET veiculo_value == Str(GetOrEmpty(raw))
    IN  veiculo_value # <<>> /\ fuzzy_match(SplitWords(model_query), veiculo_value)

RECURSIVE Flatten(_)
Flatten(ss) == IF ss = <<>> THEN <<>> ELSE Head(ss) \o Flatten(Tail(ss))

\* one filter of apply_filters: does a vehicle whose field filter_key holds
\* raw pass (main.py:147-168)
PassesFilter(raw, filter_key, filter_value) ==
    IF filter_key \in fuzzy_fields
    THEN LET multi_values == split_multi_value(filter_value)
             all_words == Flatten([i \in 1..Len(multi_values) |->
                                      SplitWords(multi_values[i])])
         IN  fuzzy_match(all_words, Str(GetOrEmpty(raw)))
    ELSE LET multi_values == split_multi_value(filter_value)
             normalized_values == {normalize_text(multi_values[i]) :
                                      i \in 1..Len(multi_values)}
         IN  normalize_text(Str(GetOrEmpty(raw))) \in normalized_values

(***************************************************************************)
(* Bounds and the inputs the model draws                                   *)
(***************************************************************************)
\* the records a snapshot is drawn from are Vehicle(1) .. Vehicle(NumVehicles)
NumVehicles == 7

T_gol == <<"g", "o", "l">>
T_uno == <<"U", "n", "o">>
T_kombi == <<"k", "o", "m", "b", "i">>
T_azul == <<"a", "z", "u", "l">>
T_roxo == <<"r", "o", "x", "o">>
T_abc == <<"a", "b", "c">>
T_xyz == <<"x", "y", "-", "z">>
T_2020 == <<"2", "0", "2", "0">>
T_2021 == <<"2", "0", "2", "1">>
T_2015_16 == <<"2", "0", "1", "5", "/", "2", "0", "1", "6">>
T_20000 == <<"2", "0", "0", "0", "0">>
T_50000 == <<"5", "0", "0", "0", "0">>
T_80_000 == <<"8", "0", ".", "0", "0", "0">>
T_price60 == <<"R", "$", " ", "6", "0", ".", "0", "0", "0", ",", "0", "0">>
T_bad == <<"x">>
T_0 == <<"0">>
T_60000 == <<"6", "0", "0", "0", "0">>
T_2018 == <<"2", "0", "1", "8">>

\* the i-th record of the inventory: two models, two colours, years,
\* mileages and prices in the forms data.json holds them (numbers,
\* formatted strings, null)
Vehicle(i) ==
    [sequencia |-> IntV(i),
     veiculo |-> StrV(IF i % 2 = 1 THEN T_gol ELSE T_uno),
     placa |-> StrV(IF i % 3 = 0 THEN T_abc ELSE T_xyz),
     cor |-> IF i % 4 = 0 THEN None ELSE StrV(T_azul),
     ano |-> IF i % 6 = 0 THEN None ELSE StrV(IF i % 3 = 1 THEN T_2015_16 ELSE T_2020),
     km |-> IF i % 3 = 2 THEN StrV(T_80_000)
            ELSE IF i % 3 = 0 /\ i % 6 # 0 THEN None
            ELSE IF i % 7 = 0 THEN StrV(T_0)
            ELSE IntV(10000 * i),
     valorIdealVenda |-> IF i % 4 = 1 THEN StrV(T_price60) ELSE IntV(20000 * i)]

\* the records of S, in inventory order
RECURSIVE Pick(_, _)
Pick(S, i) ==
    IF i > NumVehicles THEN <<>>
    ELSE (IF i \in S THEN <<Vehicle(i)>> ELSE <<>>) \o Pick(S, i + 1)

\* a snapshot holds a run Vehicle(a) .. Vehicle(b) of the inventory (none
\* when a > b)
Snapshots == {Pick(a..b, 1) : a, b \in 1..NumVehicles}

\* the filter vocabulary of get_data, in the order it builds the dict
FilterKeys == <<"veiculo", "placa", "cor", "ano", "km">>

FilterValues(k) ==
    CASE k = "veiculo" -> {<<>>, T_gol, T_kombi}
      [] k = "placa" -> {<<>>, T_abc}
      [] k = "cor" -> {<<>>, T_azul, T_roxo}
      [] k = "ano" -> {<<>>, T_2020}
      [] k = "km" -> {<<>>, T_50000}

\* query_params.get(k) for every key of the vocabulary; <<>> is a missing
\* or empty parameter
QueryParams == [{FilterKeys[i] : i \in 1..Len(FilterKeys)} -> {<<>>, T_gol, T_kombi, T_abc,
                                                            T_azul, T_roxo, T_2020, T_50000}]

\* filters = {k: v for k, v in filters.items() if v}  (main.py:533-542)
RECURSIVE BuildFilters(_, _)
BuildFilters(params, i) ==
    IF i > Len(FilterKeys) THEN <<>>
    ELSE (IF params[FilterKeys[i]] # <<>>
          THEN <<[k |-> FilterKeys[i], v |-> params[FilterKeys[i]]]>>
          ELSE <<>>) \o BuildFilters(params, i + 1)

FilterSets == {BuildFilters(p, 1) :
                  p \in {q \in QueryParams : \A k \in DOMAIN q : q[k] \in FilterValues(k)}}

ValorMaxValues == {None, StrV(T_50000)}
AnoMaxValues == {None, StrV(T_2021)}
KmMaxValues == {None, StrV(T_20000), StrV(T_bad)}
ExcludedSets == {{}, {<<"1">>, <<"3">>}}

\* the range bounds the stages of an attempt are run with: none, a number,
\* text that is no number
StageValorMaxValues == {None, StrV(T_60000), StrV(T_bad)}
StageAnoMaxValues == {None, StrV(T_2021), StrV(T_2018), StrV(T_bad)}
StageKmMaxValues == {None, StrV(T_20000), StrV(T_bad)}

(***************************************************************************)
(* Tabulated conversions.  The engine converts the same field values and   *)
(* matches the same words in every attempt; each table below holds the     *)
(* value the operator above computes, for every value the model draws, so  *)
(* that it is computed once.                                               *)
(***************************************************************************)
FieldNames == {"sequencia", "veiculo", "placa", "cor", "ano", "km", "valorIdealVenda"}
FieldValues(name) == {Vehicle(i)[name] : i \in 1..NumVehicles}
FilterKeySet == {FilterKeys[i] : i \in 1..Len(FilterKeys)}
BoundValues == ValorMaxValues \cup AnoMaxValues \cup KmMaxValues
                  \cup StageValorMaxValues \cup StageAnoMaxValues \cup StageKmMaxValues

PriceTable == [raw \in FieldValues("valorIdealVenda") |-> convert_price(Get(raw))]
YearTable == [raw \in FieldValues("ano") |-> convert_year(Get(raw))]
KmTable == [raw \in FieldValues("km") |-> convert_km(Get(raw))]
IdTable == [raw \in FieldValues("sequencia") |-> Str(Get(raw))]
PassesTable == [k \in FilterKeySet |->
                   [value \in FilterValues(k) \ {<<>>} |->
                       [raw \in FieldValues(k) |-> PassesFilter(raw, k, value)]]]
ModelTable == [value \in FilterValues("veiculo") \ {<<>>} |->
                  [raw \in FieldValues("veiculo") |-> ModelMatches(raw, value)]]
FloatTable == [b \in BoundValues |-> ParseFloat(Str(b))]
IntTable == [b \in BoundValues |-> ParseInt(Str(b))]

\* self.convert_price(v.get("valorIdealVenda"))
PriceOf(v) == PriceTable[v.valorIdealVenda]
\* self.convert_year(v.get("ano"))
YearOf(v) == YearTable[v.ano]
\* self.convert_km(v.get("km"))
KmOf(v) == KmTable[v.km]
\* str(v.get("sequencia"))
IdOf(v) == IdTable[v.sequencia]
\* float(bound), int(bound) of a range bound
FloatOf(b) == FloatTable[b]
IntOf(b) == IntTable[b]

(***************************************************************************)
(* Filter applicator.  A dict of filters is a sequence of [k, v] entries   *)
(* in insertion order, v the text of the value.                            *)
(***************************************************************************)
\* model_exists_in_database
model_exists_in_database(vehicles, model_query) ==
    IF model_query = <<>> THEN FALSE
    ELSE \E i \in 1..Len(vehicles) : ModelTable[model_query][vehicles[i].veiculo]

\* the loop left after its first entry
ApplyFilterLoop_FirstOnly(filtered_vehicles, entries) ==
    IF entries = <<>> THEN filtered_vehicles
    ELSE LET e == Head(entries)
         IN  IF e.v = <<>> \/ filtered_vehicles = <<>> THEN filtered_vehicles
             ELSE SelectSeq(filtered_vehicles, LAMBDA v : PassesTable[e.k][e.v][v[e.k]])

RECURSIVE ApplyFilterLoop(_, _)
\* the for loop of apply_filters over the remaining entries
ApplyFilterLoop(filtered_vehicles, entries) ==
    IF entries = <<>> THEN filtered_vehicles
    ELSE LET e == Head(entries)
         IN  IF e.v = <<>> \/ filtered_vehicles = <<>>
             THEN ApplyFilterLoop(filtered_vehicles, Tail(entries))
             ELSE ApplyFilterLoop(
                      SelectSeq(filtered_vehicles, LAMBDA v : PassesTable[e.k][e.v][v[e.k]]),
                      Tail(entries))

apply_filters(vehicles, filters) ==
    IF filters = <<>> THEN vehicles ELSE ApplyFilterLoop(vehicles, filters)

\* the ceiling without its margin
PriceStage_HardCeiling(vehicles, valormax) ==
    IF ~Truthy(valormax) \/ ~FloatOf(valormax).ok THEN vehicles
    ELSE SelectSeq(vehicles, LAMBDA v : PriceOf(v).ok /\ PriceOf(v).v <= FloatOf(valormax).v)

(***************************************************************************)
(* Range expander.  A range bound is a raw query value: None or a string.  *)
(***************************************************************************)
\* a ceiling that is no number taken for an error that ends the search
PriceStage_BadBoundEmpties(vehicles, valormax) ==
    IF ~Truthy(valormax) THEN vehicles
    ELSE IF ~FloatOf(valormax).ok THEN <<>>
    ELSE SelectSeq(vehicles, LAMBDA v :
             PriceOf(v).ok /\ PriceOf(v).v <= FloatOf(valormax).v + PriceMargin * 100)

\* the year floor with the requested year as a ceiling
YearStage_Capped(vehicles, anomax) ==
    IF ~Truthy(anomax) \/ ~IntOf(anomax).ok THEN vehicles
    ELSE SelectSeq(vehicles, LAMBDA v :
             /\ YearOf(v).ok
             /\ YearOf(v).v >= IntOf(anomax).v - YearLookback
             /\ YearOf(v).v <= IntOf(anomax).v)

\* the mileage band without its margin
KmStage_HardCeiling(vehicles, kmmax) ==
    IF ~Truthy(kmmax) \/ ~IntOf(kmmax).ok THEN vehicles
    ELSE IF \A i \in 1..Len(vehicles) : ~KmOf(vehicles[i]).ok THEN vehicles
    ELSE SelectSeq(vehicles, LAMBDA v : KmOf(v).ok /\ KmOf(v).v <= IntOf(kmmax).v)

\* the ValorMax stage (main.py:178-187)
PriceStage(vehicles, valormax) ==
    IF ~Truthy(valormax) THEN vehicles
    ELSE LET parsed == FloatOf(valormax)
         IN  IF ~parsed.ok THEN vehicles
             ELSE SelectSeq(vehicles, LAMBDA v :
                      /\ PriceOf(v).ok
                      /\ PriceOf(v).v
                            <= parsed.v + PriceMargin * 100)

\* the AnoMax stage (main.py:190-202)
YearStage(vehicles, anomax) ==
    IF ~Truthy(anomax) THEN vehicles
    ELSE LET parsed == IntOf(anomax)
         IN  IF ~parsed.ok THEN vehicles
             ELSE SelectSeq(vehicles, LAMBDA v :
                      /\ YearOf(v).ok
                      /\ YearOf(v).v >= parsed.v - YearLookback)

SetMin(S) == CHOOSE x \in S : \A y \in S : x <= y

\* the KmMax stage (main.py:205-233)
KmStage(vehicles, kmmax) ==
    IF ~Truthy(kmmax) THEN vehicles
    ELSE LET parsed == IntOf(kmmax)
             max_km_with_margin == parsed.v + KmMargin
             vehicles_with_km == SelectSeq(vehicles, LAMBDA v : KmOf(v).ok)
             min_km_available == SetMin({KmOf(vehicles_with_km[i]).v :
                                            i \in 1..Len(vehicles_with_km)})
             min_km_filter == IF min_km_available > parsed.v THEN min_km_available ELSE 0
         IN  IF ~parsed.ok \/ vehicles_with_km = <<>> THEN vehicles
             ELSE SelectSeq(vehicles, LAMBDA v :
                      /\ KmOf(v).ok
                      /\ min_km_filter <= KmOf(v).v
                      /\ KmOf(v).v <= max_km_with_margin)

apply_range_filters(vehicles, valormax, anomax, kmmax) ==
    KmStage(YearStage(PriceStage(vehicles, valormax), anomax), kmmax)

(***************************************************************************)
(* Sorter.  sorted() is stable; a sort key is [inf, k]: inf = 1 stands for *)
(* float('inf').                                                           *)
(***************************************************************************)
KeyLeq(a, b) == a.inf < b.inf \/ (a.inf = b.inf /\ a.k <= b.k)

\* sorted(vehicles, key = ...) given the key of each position: a stable
\* sort, so position j comes before position i when its key is smaller, or
\* equal with j earlier in the input
SortedBy(vehicles, keys) ==
    LET n == Len(vehicles)
        Before(j, i) == IF keys[j] = keys[i] THEN j < i ELSE KeyLeq(keys[j], keys[i])
        Rank(i) == Cardinality({j \in 1..n : Before(j, i)}) + 1
    IN  [p \in 1..n |-> vehicles[CHOOSE i \in 1..n : Rank(i) = p]]

Abs(x) == IF x < 0 THEN -x ELSE x

\* x or 0
OrZero(opt) == IF opt.ok /\ opt.v # 0 THEN opt.v ELSE 0

\* key = convert_km(v.get("km")) or float('inf')
KmKey(v) ==
    LET km == KmOf(v)
    IN  IF km.ok /\ km.v # 0 THEN [inf |-> 0, k |-> km.v] ELSE [inf |-> 1, k |-> 0]

\* key = abs((convert_price(...) or 0) - target_price)
PriceDistKey(v, target_price) ==
    [inf |-> 0, k |-> Abs(OrZero(PriceOf(v)) - target_price)]

\* key = abs((convert_year(...) or 0) - target_year)
YearDistKey(v, target_year) ==
    [inf |-> 0, k |-> Abs(OrZero(YearOf(v)) - target_year)]

\* key = convert_price(...) or 0, reverse = True (a reversed sort keeps the
\* input order of equal keys)
PriceDescKey(v) ==
    [inf |-> 0, k |-> -OrZero(PriceOf(v))]

\* which rule of sort_vehicles applies (main.py:244-266)
SortRule(valormax, anomax, kmmax) ==
    IF Truthy(kmmax) THEN "km"
    ELSE IF Truthy(valormax) /\ FloatOf(valormax).ok THEN "valor"
    ELSE IF Truthy(anomax) /\ IntOf(anomax).ok THEN "ano"
    ELSE "default"

sort_vehicles(vehicles, valormax, anomax, kmmax) ==
    LET rule == SortRule(valormax, anomax, kmmax)
        keys == [i \in 1..Len(vehicles) |->
                    CASE rule = "km" -> KmKey(vehicles[i])
                      [] rule = "valor" ->
                           PriceDistKey(vehicles[i], FloatOf(valormax).v)
                      [] rule = "ano" ->
                           YearDistKey(vehicles[i], IntOf(anomax).v)
                      [] OTHER -> PriceDescKey(vehicles[i])]
    IN  IF vehicles = <<>> THEN vehicles ELSE SortedBy(vehicles, keys)

\* the exclusion step left out
Exclude_Off(vehicles, excluded_ids) == vehicles

\* the exclusion step: str(v.get("sequencia")) not in excluded_ids
Exclude(vehicles, excluded_ids) ==
    IF excluded_ids = {} THEN vehicles
    ELSE SelectSeq(vehicles, LAMBDA v : IdOf(v) \notin excluded_ids)

\* one attempt of search_with_fallback: filters, ranges, exclusion
Attempt_NoRange(vehicles, filters, valormax, anomax, kmmax, excluded_ids) ==
    Exclude(apply_filters(vehicles, filters), excluded_ids)

Attempt(vehicles, filters, valormax, anomax, kmmax, excluded_ids) ==
    Exclude(apply_range_filters(apply_filters(vehicles, filters), valormax, anomax, kmmax),
            excluded_ids)

\* the slice forgotten
Cap_Uncapped(vehicles) == vehicles

\* sorted_vehicles[:6]
Cap(vehicles) == SubSeq(vehicles, 1, Min(Len(vehicles), MaxResults))

(***************************************************************************)
(* State                                                                   *)
(***************************************************************************)
VARIABLES
    \* the arguments of one call of search_with_fallback
    vehicles, filters, valormax, anomax, kmmax, excluded_ids,
    \* its position and locals
    pc, current_filters, removed_filters,
    current_valormax, current_anomax, current_kmmax,
    range_i, filter_i,
    \* the SearchResult it returns (meaningful once pc = "done")
    result,
    \* history: the stage that returned, the configurations retried after
    \* the strict attempt, and every removal seen as a change of
    \* configuration
    stage, attempts, removals,
    \* the file data.json: whether it exists and the chunks it holds
    data_json,
    \* the refresh job: its position, XMLFetcher.data, the refreshes so far
    refresh_pc, fetcher_data, refreshes,
    \* a get_data request: its position and its error response, if any
    request_pc, response,
    \* history: every snapshot that was ever written to data.json in full or
    \* is being written now
    published,
    \* the list a stage of an attempt was given and the list it returned
    stage_in, stage_out

engine_vars == <<vehicles, filters, valormax, anomax, kmmax, excluded_ids,
                 pc, current_filters, removed_filters,
                 current_valormax, current_anomax, current_kmmax,
                 range_i, filter_i, result, stage, attempts, removals>>

refresh_vars == <<data_json, refresh_pc, fetcher_data, refreshes, request_pc, response,
                  published>>

stage_vars == <<stage_in, stage_out>>

vars == <<engine_vars, refresh_vars, stage_vars>>

(***************************************************************************)
(* SearchResult and fallback_info                                          *)
(***************************************************************************)
\* fallback_info = {}
EmptyInfo == [no_fallback_reason |-> "", fallback |-> FALSE,
              removed_filters |-> <<>>, reason |-> ""]
\* {"no_fallback_reason": "single_filter_not_model"}
SingleFilterInfo == [no_fallback_reason |-> "single_filter_not_model", fallback |-> FALSE,
                     removed_filters |-> <<>>, reason |-> ""]
\* {"fallback": {"removed_filters": removed, "reason": "model_not_found_in_database"}}
ModelNotFoundInfo(removed) == [no_fallback_reason |-> "", fallback |-> TRUE,
                               removed_filters |-> removed,
                               reason |-> "model_not_found_in_database"]
\* {"fallback": {"removed_filters": removed}}
FallbackInfo(removed) == [no_fallback_reason |-> "", fallback |-> TRUE,
                          removed_filters |-> removed, reason |-> ""]

SearchResult(vs, total, info, removed) ==
    [vehicles |-> vs, total_found |-> total, fallback_info |-> info,
     removed_filters |-> removed]

NoResult == SearchResult(<<>>, 0, EmptyInfo, <<>>)

\* the SearchResult of a successful attempt: sort, cap, count
Found(filtered_vehicles, vmax, amax, kmax, info, removed) ==
    LET sorted_vehicles == sort_vehicles(filtered_vehicles, vmax, amax, kmax)
    IN  SearchResult(Cap(sorted_vehicles), Len(sorted_vehicles), info, removed)

\* an entry of removed_filters: a plain name, or f"veiculo({model_value})"
RemovedName(name) == [name |-> name, bracket |-> FALSE, arg |-> <<>>]
RemovedModel(model_value) == [name |-> "veiculo", bracket |-> TRUE, arg |-> model_value]

(***************************************************************************)
(* dict helpers                                                            *)
(***************************************************************************)
HasKey(d, key) == \E i \in 1..Len(d) : d[i].k = key
ValueOf(d, key) == d[CHOOSE i \in 1..Len(d) : d[i].k = key].v
\* the filter left in the dict
WithoutKey_Kept(d, key) == d

\* the working dict being the caller's own dict, keys deleted in place
CallerFilters_Aliased(passed, working) == working

\* the dict the caller passed, once the engine has rebuilt its working
\* dict: current_filters is dict(filters) and every removal builds a new
\* dict by comprehension (main.py:303, 313, 390), so the caller's keeps
\* every key
CallerFilters(passed, working) == passed

\* {k: v for k, v in d.items() if k != key}
WithoutKey(d, key) == SelectSeq(d, LAMBDA e : e.k # key)
Keys(d) == {d[i].k : i \in 1..Len(d)}

\* the number of range bounds a configuration holds
ActiveRanges(vmax, amax, kmax) ==
    (IF Truthy(vmax) THEN 1 ELSE 0) + (IF Truthy(amax) THEN 1 ELSE 0)
        + (IF Truthy(kmax) THEN 1 ELSE 0)

\* history: what a step took out of the configuration, read off the
\* configuration before and after
ConfigDiff(f, v, a, k, f2, v2, a2, k2) ==
    LET gone == SelectSeq(f, LAMBDA e : ~HasKey(f2, e.k))
    IN  [i \in 1..Len(gone) |-> gone[i].k]
        \o (IF Truthy(k) /\ ~Truthy(k2) THEN <<"KmMax">> ELSE <<>>)
        \o (IF Truthy(a) /\ ~Truthy(a2) THEN <<"AnoMax">> ELSE <<>>)
        \o (IF Truthy(v) /\ ~Truthy(v2) THEN <<"ValorMax">> ELSE <<>>)

\* history: a retried configuration and whether it found a record
AttemptRecord(f, v, a, k, hit) ==
    [filters |-> f, valormax |-> v, anomax |-> a, kmmax |-> k, hit |-> hit]

(***************************************************************************)
(* search_with_fallback, one action per stage step                         *)
(***************************************************************************)
\* the strict result reported as a fallback
StrictResult_AsFallback(filtered_vehicles) ==
    Found(filtered_vehicles, valormax, anomax, kmmax, FallbackInfo(<<>>), <<>>)

\* the SearchResult of a successful strict attempt (main.py:283-291)
StrictResult(filtered_vehicles) ==
    Found(filtered_vehicles, valormax, anomax, kmmax, EmptyInfo, <<>>)

\* the test with the model filter taken for the exception the wrong way round
SingleFilterRule_Inverted(fs) == Len(fs) = 1 /\ HasKey(fs, "veiculo")

\* len(filters) == 1 and "veiculo" not in filters  (main.py:294)
SingleFilterRule(fs) == Len(fs) = 1 /\ ~HasKey(fs, "veiculo")

\* the SearchResult of the short-circuit (main.py:295-300)
SingleFilterResult == SearchResult(<<>>, 0, SingleFilterInfo, <<>>)

\* the break test off by one: len(remaining_filters) <= 0
MayRemoveFilter_OffByOne(cf) == Len(SelectSeq(cf, LAMBDA e : e.v # <<>>)) > 0

\* the break test of the filter loop, negated: len(remaining_filters) > 1
\* (main.py:385-387)
MayRemoveFilter(cf) == Len(SelectSeq(cf, LAMBDA e : e.v # <<>>)) > 1

\* no range parameter ever cleared
RangeParamActive_Never(range_param, vmax, amax, kmax) == FALSE

\* every range parameter retried, supplied or not
RangeParamActive_Always(range_param, vmax, amax, kmax) ==
    range_param \in {"ValorMax", "AnoMax", "KmMax"}

\* is the range parameter of this iteration still set (main.py:346-356)
RangeParamActive(range_param, vmax, amax, kmax) ==
    \/ range_param = "ValorMax" /\ Truthy(vmax)
    \/ range_param = "AnoMax" /\ Truthy(amax)
    \/ range_param = "KmMax" /\ Truthy(kmax)

\* the empty result without the accumulated removals
ExhaustedResult_NoRemovals(removed) == SearchResult(<<>>, 0, EmptyInfo, <<>>)

\* the SearchResult when nothing was found (main.py:415-420)
ExhaustedResult(removed) == SearchResult(<<>>, 0, EmptyInfo, removed)

\* main.py:274-291: the strict attempt
StrictAttempt ==
    /\ pc = "strict"
    /\ UNCHANGED <<refresh_vars, stage_vars>>
    /\ \E filtered_vehicles \in
             {Attempt(vehicles, filters, valormax, anomax, kmmax, excluded_ids)} :
          \E hit \in {filtered_vehicles # <<>>} :
             /\ result' = IF hit THEN StrictResult(filtered_vehicles) ELSE result
             /\ pc' = IF hit THEN "done" ELSE "single"
             /\ stage' = IF hit THEN "strict" ELSE stage
    /\ UNCHANGED <<vehicles, filters, valormax, anomax, kmmax, excluded_ids,
                   current_filters, removed_filters, current_valormax, current_anomax,
                   current_kmmax, range_i, filter_i, attempts, removals>>

\* main.py:294-300: the single-filter rule
SingleFilterCheck ==
    /\ pc = "single"
    /\ UNCHANGED <<refresh_vars, stage_vars>>
    /\ \E stop \in {SingleFilterRule(filters)} :
          /\ result' = IF stop THEN SingleFilterResult ELSE result
          /\ pc' = IF stop THEN "done" ELSE "probe"
          /\ stage' = IF stop THEN "single" ELSE stage
    /\ UNCHANGED <<vehicles, filters, valormax, anomax, kmmax, excluded_ids,
                   current_filters, removed_filters, current_valormax, current_anomax,
                   current_kmmax, range_i, filter_i, attempts, removals>>

\* main.py:303-342: the model-existence probe and its retry
ModelProbe ==
    /\ pc = "probe"
    /\ UNCHANGED <<refresh_vars, stage_vars>>
    /\ \E drop \in {/\ HasKey(filters, "veiculo")
                    /\ ~model_exists_in_database(vehicles, ValueOf(filters, "veiculo"))} :
          LET new_filters == IF drop THEN WithoutKey(filters, "veiculo") ELSE filters
              new_removed == IF drop THEN <<RemovedModel(ValueOf(filters, "veiculo"))>>
                             ELSE <<>>
              retry == drop /\ new_filters # <<>>
          IN  \E filtered_vehicles \in
                    {IF retry
                     THEN Attempt(vehicles, new_filters, valormax, anomax, kmmax,
                                  excluded_ids)
                     ELSE <<>>} :
                 \E hit \in {filtered_vehicles # <<>>} :
                    /\ current_filters' = new_filters
                    /\ removed_filters' = new_removed
                    /\ attempts' = IF retry
                                   THEN Append(attempts,
                                               AttemptRecord(new_filters, valormax, anomax,
                                                             kmmax, hit))
                                   ELSE attempts
                    /\ result' = IF hit
                                 THEN Found(filtered_vehicles, valormax, anomax, kmmax,
                                            ModelNotFoundInfo(new_removed), new_removed)
                                 ELSE result
                    /\ pc' = IF hit THEN "done" ELSE "range"
                    /\ stage' = IF hit THEN "probe" ELSE stage
                    /\ removals' = removals
                                     \o ConfigDiff(filters, valormax, anomax, kmmax,
                                                   new_filters, valormax, anomax, kmmax)
    /\ current_valormax' = valormax
    /\ current_anomax' = anomax
    /\ current_kmmax' = kmmax
    /\ range_i' = 1
    /\ filters' = CallerFilters(filters, current_filters')
    /\ UNCHANGED <<vehicles, valormax, anomax, kmmax, excluded_ids, filter_i>>

\* main.py:345-377: one iteration of the loop over RANGE_FALLBACK
RangeStep ==
    /\ pc = "range"
    /\ UNCHANGED <<refresh_vars, stage_vars>>
    /\ \E active \in {RangeParamActive(RANGE_FALLBACK[range_i], current_valormax,
                                       current_anomax, current_kmmax)} :
          LET range_param == RANGE_FALLBACK[range_i]
              new_valormax == IF active /\ range_param = "ValorMax" THEN None
                              ELSE current_valormax
              new_anomax == IF active /\ range_param = "AnoMax" THEN None
                            ELSE current_anomax
              new_kmmax == IF active /\ range_param = "KmMax" THEN None
                           ELSE current_kmmax
              new_removed == IF active
                             THEN Append(removed_filters, RemovedName(range_param))
                             ELSE removed_filters
          IN  \E filtered_vehicles \in
                    {IF active
                     THEN Attempt(vehicles, current_filters, new_valormax, new_anomax,
                                  new_kmmax, excluded_ids)
                     ELSE <<>>} :
                 \E hit \in {filtered_vehicles # <<>>} :
                    /\ current_valormax' = new_valormax
                    /\ current_anomax' = new_anomax
                    /\ current_kmmax' = new_kmmax
                    /\ removed_filters' = new_removed
                    /\ attempts' = IF active
                                   THEN Append(attempts,
                                               AttemptRecord(current_filters, new_valormax,
                                                             new_anomax, new_kmmax, hit))
                                   ELSE attempts
                    /\ result' = IF hit
                                 THEN Found(filtered_vehicles, new_valormax, new_anomax,
                                            new_kmmax, FallbackInfo(new_removed),
                                            new_removed)
                                 ELSE result
                    /\ pc' = IF hit THEN "done"
                             ELSE IF range_i = Len(RANGE_FALLBACK) THEN "filter"
                             ELSE "range"
                    /\ stage' = IF hit THEN "range" ELSE stage
                    /\ removals' = removals
                                     \o ConfigDiff(current_filters, current_valormax,
                                                   current_anomax, current_kmmax,
                                                   current_filters, new_valormax,
                                                   new_anomax, new_kmmax)
    /\ range_i' = range_i + 1
    /\ filter_i' = 1
    /\ UNCHANGED <<vehicles, filters, valormax, anomax, kmmax, excluded_ids,
                   current_filters>>

\* main.py:380-412: one iteration of the loop over FALLBACK_PRIORITY
FilterStep ==
    /\ pc = "filter"
    /\ UNCHANGED <<refresh_vars, stage_vars>>
    /\ \E present \in {HasKey(current_filters, FALLBACK_PRIORITY[filter_i])} :
       \E stop \in {present /\ ~MayRemoveFilter(current_filters)} :
          LET filter_to_remove == FALLBACK_PRIORITY[filter_i]
              remove == present /\ ~stop
              new_filters == IF remove THEN WithoutKey(current_filters, filter_to_remove)
                             ELSE current_filters
              new_removed == IF remove
                             THEN Append(removed_filters, RemovedName(filter_to_remove))
                             ELSE removed_filters
          IN  \E filtered_vehicles \in
                    {IF remove
                     THEN Attempt(vehicles, new_filters, current_valormax, current_anomax,
                                  current_kmmax, excluded_ids)
                     ELSE <<>>} :
                 \E hit \in {filtered_vehicles # <<>>} :
                    /\ current_filters' = new_filters
                    /\ removed_filters' = new_removed
                    /\ attempts' = IF remove
                                   THEN Append(attempts,
                                               AttemptRecord(new_filters, current_valormax,
                                                             current_anomax, current_kmmax,
                                                             hit))
                                   ELSE attempts
                    /\ result' = IF hit
                                 THEN Found(filtered_vehicles, current_valormax,
                                            current_anomax, current_kmmax,
                                            FallbackInfo(new_removed), new_removed)
                                 ELSE result
                    /\ pc' = IF hit THEN "done"
                             ELSE IF stop \/ filter_i = Len(FALLBACK_PRIORITY)
                                  THEN "exhausted"
                             ELSE "filter"
                    /\ stage' = IF hit THEN "filter" ELSE stage
                    /\ removals' = removals
                                     \o ConfigDiff(current_filters, current_valormax,
                                                   current_anomax, current_kmmax,
                                                   new_filters, current_valormax,
                                                   current_anomax, current_kmmax)
    /\ filter_i' = filter_i + 1
    /\ filters' = CallerFilters(filters, current_filters')
    /\ UNCHANGED <<vehicles, valormax, anomax, kmmax, excluded_ids,
                   current_valormax, current_anomax, current_kmmax, range_i>>

\* main.py:415-420: nothing found
Exhausted ==
    /\ pc = "exhausted"
    /\ UNCHANGED <<refresh_vars, stage_vars>>
    /\ result' = ExhaustedResult(removed_filters)
    /\ pc' = "done"
    /\ stage' = "exhausted"
    /\ UNCHANGED <<vehicles, filters, valormax, anomax, kmmax, excluded_ids,
                   current_filters, removed_filters, current_valormax, current_anomax,
                   current_kmmax, range_i, filter_i, attempts, removals>>

(***************************************************************************)
(* data.json: json.dump writes it chunk by chunk, json.load parses it     *)
(***************************************************************************)
\* a chunk of JSON text: punctuation, a key, a scalar value, or the fields
\* of one vehicle object (x holds the record)
Chunk(t) == [t |-> t, x |-> <<>>]
FieldsChunk(v) == [t |-> "fields", x |-> <<v>>]

\* the keys of the dict parse_xml builds (xml_fetcher.py:92-98)
DataKeys == <<"dataGeracao", "totalVeiculos", "veiculos", "fonte", "dataProcessamento">>

\* XMLFetcher.data with the vehicle list vs
EstoqueData(vs) == [veiculos |-> vs]

\* the chunks of a list of vehicle objects, comma separated
RECURSIVE DumpList(_)
DumpList(vs) ==
    IF vs = <<>> THEN <<>>
    ELSE <<Chunk("{"), FieldsChunk(Head(vs)), Chunk("}")>>
         \o (IF Tail(vs) = <<>> THEN <<>> ELSE <<Chunk(",")>> \o DumpList(Tail(vs)))

\* the chunks of the members of the dict from key i on
RECURSIVE DumpMembers(_, _)
DumpMembers(data, i) ==
    IF i > Len(DataKeys) THEN <<>>
    ELSE <<Chunk(DataKeys[i]), Chunk(":")>>
         \o (IF DataKeys[i] = "veiculos"
             THEN <<Chunk("[")>> \o DumpList(data.veiculos) \o <<Chunk("]")>>
             ELSE <<Chunk("scalar")>>)
         \o (IF i < Len(DataKeys) THEN <<Chunk(",")>> ELSE <<>>)
         \o DumpMembers(data, i + 1)

\* json.dump(self.data, f): the chunks written, in order
json_dump(data) == <<Chunk("{")>> \o DumpMembers(data, 1) \o <<Chunk("}")>>

\* a document json.load rejects (JSONDecodeError)
DecodeError == [ok |-> FALSE, is_mapping |-> FALSE, has_veiculos |-> FALSE,
                is_list |-> FALSE, veiculos |-> <<>>]

\* a document whose top level is a list or a scalar: valid JSON, no dict
NotAMapping == [ok |-> TRUE, is_mapping |-> FALSE, has_veiculos |-> FALSE,
                is_list |-> FALSE, veiculos |-> <<>>]

\* the elements of an array from position i on; need_item: an element is
\* due (after "[" or ","), otherwise "," or "]" is
RECURSIVE LoadItems(_, _, _, _)
LoadItems(text, i, items, need_item) ==
    IF i > Len(text) THEN [ok |-> FALSE, next |-> i, items |-> <<>>]
    ELSE IF need_item
         THEN IF /\ i + 2 <= Len(text)
                 /\ text[i].t = "{" /\ text[i + 1].t = "fields" /\ text[i + 2].t = "}"
              THEN LoadItems(text, i + 3, items \o text[i + 1].x, FALSE)
              ELSE [ok |-> FALSE, next |-> i, items |-> <<>>]
         ELSE IF text[i].t = "]" THEN [ok |-> TRUE, next |-> i + 1, items |-> items]
         ELSE IF text[i].t = "," THEN LoadItems(text, i + 1, items, TRUE)
         ELSE [ok |-> FALSE, next |-> i, items |-> <<>>]

\* an array whose "[" is at position i - 1
LoadArray(text, i) ==
    IF i <= Len(text) /\ text[i].t = "]"
    THEN [ok |-> TRUE, next |-> i + 1, items |-> <<>>]
    ELSE LoadItems(text, i, <<>>, TRUE)

\* the members of the top-level object from position i on; doc is what was
\* parsed so far; the closing brace must end the text
RECURSIVE LoadMembers(_, _, _, _)
LoadMembers(text, i, doc, need_member) ==
    IF i > Len(text) THEN DecodeError
    ELSE IF need_member
         THEN IF /\ i + 2 <= Len(text)
                 /\ \E k \in 1..Len(DataKeys) : text[i].t = DataKeys[k]
                 /\ text[i + 1].t = ":"
              THEN IF text[i + 2].t = "scalar"
                   THEN LoadMembers(text, i + 3,
                                    IF text[i].t = "veiculos"
                                    THEN [doc EXCEPT !.has_veiculos = TRUE,
                                                     !.is_list = FALSE]
                                    ELSE doc,
                                    FALSE)
                   ELSE IF text[i + 2].t = "["
                   THEN LET array == LoadArray(text, i + 3)
                        IN  IF array.ok
                            THEN LoadMembers(text, array.next,
                                             IF text[i].t = "veiculos"
                                             THEN [doc EXCEPT !.has_veiculos = TRUE,
                                                              !.is_list = TRUE,
                                                              !.veiculos = array.items]
                                             ELSE doc,
                                             FALSE)
                            ELSE DecodeError
                   ELSE DecodeError
              ELSE DecodeError
         ELSE IF text[i].t = "}" THEN (IF i = Len(text) THEN doc ELSE DecodeError)
         ELSE IF text[i].t = "," THEN LoadMembers(text, i + 1, doc, TRUE)
         ELSE DecodeError

\* json.load(f) of the chunks the file holds (main.py:505-506)
json_load(text) ==
    LET empty_doc == [ok |-> TRUE, is_mapping |-> TRUE, has_veiculos |-> FALSE,
                      is_list |-> FALSE, veiculos |-> <<>>]
    IN  IF text = <<>> THEN DecodeError
        ELSE IF text[1].t = "scalar"
             THEN (IF Len(text) = 1 THEN NotAMapping ELSE DecodeError)
        ELSE IF text[1].t = "["
             THEN (IF LoadArray(text, 2).ok /\ LoadArray(text, 2).next = Len(text) + 1
                   THEN NotAMapping ELSE DecodeError)
        ELSE IF text[1].t # "{" THEN DecodeError
        ELSE IF Len(text) >= 2 /\ text[2].t = "}"
             THEN (IF Len(text) = 2 THEN empty_doc ELSE DecodeError)
        ELSE LoadMembers(text, 2, empty_doc, TRUE)

\* the exceptions of the except clause (main.py:512)
CaughtExceptions == {"JSONDecodeError", "ValueError", "KeyError"}

\* the except clause widened to every exception
CaughtExceptions_All == {"JSONDecodeError", "ValueError", "KeyError", "AttributeError"}

\* main.py:504-510: json.load, data.get("veiculos", []), the isinstance
\* test; raised is the exception the block ends with, "" if none; a list
\* or a scalar has no method get
LoadVehicles(text) ==
    LET data == json_load(text)
        Raised(e) == [ok |-> FALSE, raised |-> e, vehicles |-> <<>>]
    IN  IF ~data.ok THEN Raised("JSONDecodeError")
        ELSE IF ~data.is_mapping THEN Raised("AttributeError")
        ELSE IF ~data.has_veiculos THEN [ok |-> TRUE, raised |-> "", vehicles |-> <<>>]
        ELSE IF ~data.is_list THEN Raised("ValueError")
        ELSE [ok |-> TRUE, raised |-> "", vehicles |-> data.veiculos]

\* the file data.json
NoFile == [exists |-> FALSE, content |-> <<>>]
FileWith(content) == [exists |-> TRUE, content |-> content]

\* a JSONResponse with an error (main.py:494-501, 512-520); status 0: none
NoResponse == [status |-> 0, error |-> ""]
NotFoundResponse == [status |-> 404, error |-> "Nenhum dado disponivel"]
LoadErrorResponse == [status |-> 500, error |-> "Erro ao carregar dados"]
\* no JSONResponse of get_data: the exception left the handler
UnhandledError == [status |-> 500, error |-> "Internal Server Error"]

\* a call as get_data makes it (main.py:573-575): a snapshot, the filters
\* built from the query, the range bounds and the excluded ids, with at
\* least one filter or range bound (main.py:545, 553)
Init ==
    /\ vehicles \in Snapshots
    /\ filters \in FilterSets
    /\ valormax \in ValorMaxValues
    /\ anomax \in AnoMaxValues
    /\ kmmax \in KmMaxValues
    /\ excluded_ids \in ExcludedSets
    /\ ~(filters = <<>> /\ ~Truthy(valormax) /\ ~Truthy(anomax) /\ ~Truthy(kmmax))
    /\ pc = "strict"
    /\ current_filters = filters
    /\ removed_filters = <<>>
    /\ current_valormax = valormax
    /\ current_anomax = anomax
    /\ current_kmmax = kmmax
    /\ range_i = 1
    /\ filter_i = 1
    /\ result = NoResult
    /\ stage = "running"
    /\ attempts = <<>>
    /\ removals = <<>>
    \* data.json holds the snapshot get_data loaded; no refresh is running
    /\ data_json = FileWith(json_dump(EstoqueData(vehicles)))
    /\ refresh_pc = "idle"
    /\ fetcher_data = EstoqueData(vehicles)
    /\ refreshes = 0
    /\ request_pc = "search"
    /\ response = NoResponse
    /\ published = {vehicles}
    /\ stage_in = <<>>
    /\ stage_out = <<>>

Next ==
    \/ StrictAttempt
    \/ SingleFilterCheck
    \/ ModelProbe
    \/ RangeStep
    \/ FilterStep
    \/ Exhausted

Spec == Init /\ [][Next]_vars

(***************************************************************************)
(* The refresh job and a concurrent get_data request                       *)
(***************************************************************************)
\* the snapshots a feed delivers in this part: at most MaxRecords records
MaxRecords == 2
\* the refreshes the scheduler starts
MaxRefreshes == 1

FeedSnapshots == {vs \in Snapshots : Len(vs) <= MaxRecords}

\* main.py:456-460: the scheduler (or startup) starts a refresh
RefreshStart ==
    /\ refresh_pc = "idle"
    /\ UNCHANGED stage_vars
    /\ refreshes < MaxRefreshes
    /\ refresh_pc' = "fetch"
    /\ refreshes' = refreshes + 1
    /\ UNCHANGED <<data_json, fetcher_data, request_pc, response, published>>
    /\ UNCHANGED engine_vars

\* fetch_and_convert_xml: download and parse the feed into XMLFetcher.data,
\* then save it as data.json
fetch_and_convert_xml ==
    /\ refresh_pc = "fetch"
    /\ UNCHANGED stage_vars
    /\ \E vs \in FeedSnapshots :
          /\ fetcher_data' = EstoqueData(vs)
          /\ published' = published \cup {vs}
    /\ refresh_pc' = "open"
    /\ UNCHANGED <<data_json, refreshes, request_pc, response>>
    /\ UNCHANGED engine_vars

\* main.py:475-478: the fetch raised; data.json is left as it was
RefreshFails ==
    /\ refresh_pc = "fetch"
    /\ UNCHANGED stage_vars
    /\ refresh_pc' = "idle"
    /\ UNCHANGED <<data_json, fetcher_data, refreshes, request_pc, response, published>>
    /\ UNCHANGED engine_vars

\* xml_fetcher.py:228: open(output_file, 'w') creates or truncates the file
SaveOpen ==
    /\ refresh_pc = "open"
    /\ UNCHANGED stage_vars
    /\ data_json' = FileWith(<<>>)
    /\ refresh_pc' = "dump"
    /\ UNCHANGED <<fetcher_data, refreshes, request_pc, response, published>>
    /\ UNCHANGED engine_vars

\* xml_fetcher.py:229: json.dump writes the next chunk
SaveDump ==
    /\ refresh_pc = "dump"
    /\ UNCHANGED stage_vars
    /\ \E text \in {json_dump(fetcher_data)} :
          /\ Len(data_json.content) < Len(text)
          /\ data_json' = FileWith(Append(data_json.content,
                                          text[Len(data_json.content) + 1]))
    /\ UNCHANGED <<refresh_pc, fetcher_data, refreshes, request_pc, response, published>>
    /\ UNCHANGED engine_vars

\* xml_fetcher.py:228-229: json.dump has returned, the with block closes
\* the file
SaveClose ==
    /\ refresh_pc = "dump"
    /\ UNCHANGED stage_vars
    /\ data_json.content = json_dump(fetcher_data)
    /\ refresh_pc' = "count"
    /\ UNCHANGED <<data_json, fetcher_data, refreshes, request_pc, response, published>>
    /\ UNCHANGED engine_vars

\* main.py:462-473: the job reads data.json back to count the vehicles and
\* saves the status
RefreshDone ==
    /\ refresh_pc = "count"
    /\ UNCHANGED stage_vars
    /\ refresh_pc' = "idle"
    /\ UNCHANGED <<data_json, fetcher_data, refreshes, request_pc, response, published>>
    /\ UNCHANGED engine_vars

\* main.py:488-489: a request arrives
RequestArrives ==
    /\ request_pc \in {"idle", "responded", "search", "crashed"}
    /\ UNCHANGED stage_vars
    /\ request_pc' = "exists"
    /\ response' = NoResponse
    /\ vehicles' = <<>>
    /\ UNCHANGED <<data_json, refresh_pc, fetcher_data, refreshes, published>>
    /\ UNCHANGED <<filters, valormax, anomax, kmmax, excluded_ids,
                   pc, current_filters, removed_filters,
                   current_valormax, current_anomax, current_kmmax,
                   range_i, filter_i, result, stage, attempts, removals>>

\* main.py:493-501: os.path.exists("data.json")
ExistsCheck ==
    /\ request_pc = "exists"
    /\ UNCHANGED stage_vars
    /\ request_pc' = IF data_json.exists THEN "load" ELSE "responded"
    /\ response' = IF data_json.exists THEN response ELSE NotFoundResponse
    /\ UNCHANGED <<data_json, refresh_pc, fetcher_data, refreshes, published>>
    /\ UNCHANGED engine_vars

\* main.py:504-520: open, json.load and the shape test; on success the
\* request goes on to search the vehicles it loaded; an exception the
\* except clause does not name leaves the handler
LoadData ==
    /\ request_pc = "load"
    /\ UNCHANGED stage_vars
    /\ \E loaded \in {LoadVehicles(data_json.content)} :
          /\ vehicles' = loaded.vehicles
          /\ request_pc' = IF loaded.ok THEN "search"
                           ELSE IF loaded.raised \in CaughtExceptions THEN "responded"
                           ELSE "crashed"
          /\ response' = IF loaded.ok THEN response
                         ELSE IF loaded.raised \in CaughtExceptions THEN LoadErrorResponse
                         ELSE UnhandledError
    /\ UNCHANGED <<data_json, refresh_pc, fetcher_data, refreshes, published>>
    /\ UNCHANGED <<filters, valormax, anomax, kmmax, excluded_ids,
                   pc, current_filters, removed_filters,
                   current_valormax, current_anomax, current_kmmax,
                   range_i, filter_i, result, stage, attempts, removals>>

\* the service after startup: data.json holds the snapshot of the startup
\* refresh, or is missing when that refresh failed; no request is running
InitRefresh ==
    /\ \E vs \in FeedSnapshots :
          \/ /\ data_json = FileWith(json_dump(EstoqueData(vs)))
             /\ fetcher_data = EstoqueData(vs)
             /\ published = {vs}
          \/ /\ vs = <<>>
             /\ data_json = NoFile
             /\ fetcher_data = EstoqueData(vs)
             /\ published = {}
    /\ refresh_pc = "idle"
    /\ refreshes = 0
    /\ request_pc = "idle"
    /\ response = NoResponse
    /\ vehicles = <<>>
    /\ filters = <<>>
    /\ valormax = None
    /\ anomax = None
    /\ kmmax = None
    /\ excluded_ids = {}
    /\ pc = "idle"
    /\ current_filters = <<>>
    /\ removed_filters = <<>>
    /\ current_valormax = None
    /\ current_anomax = None
    /\ current_kmmax = None
    /\ range_i = 1
    /\ filter_i = 1
    /\ result = NoResult
    /\ stage = "running"
    /\ attempts = <<>>
    /\ removals = <<>>
    /\ stage_in = <<>>
    /\ stage_out = <<>>

NextRefresh ==
    \/ RefreshStart
    \/ fetch_and_convert_xml
    \/ RefreshFails
    \/ SaveOpen
    \/ SaveDump
    \/ SaveClose
    \/ RefreshDone
    \/ RequestArrives
    \/ ExistsCheck
    \/ LoadData

SpecRefresh == InitRefresh /\ [][NextRefresh]_vars

(***************************************************************************)
(* get_data: the whole-inventory listing or the call of the engine         *)
(***************************************************************************)
\* the exclusion switched off
ListInventory_NoExclusion(all_vehicles, excluded) ==
    SortedBy(all_vehicles, [i \in 1..Len(all_vehicles) |-> PriceDescKey(all_vehicles[i])])

\* main.py:554-564: the snapshot without the excluded ids, by price
\* descending
ListInventory(all_vehicles, excluded) ==
    LET kept == Exclude(all_vehicles, excluded)
    IN  SortedBy(kept, [i \in 1..Len(kept) |-> PriceDescKey(kept[i])])

\* has_search_filters = bool(filters) or valormax or anomax or kmmax
\* (main.py:545)
has_search_filters(fs, vmax, amax, kmax) ==
    fs # <<>> \/ Truthy(vmax) \/ Truthy(amax) \/ Truthy(kmax)

\* main.py:566-570: the listing response: every record, its count, no
\* fallback data
ListingResult(sorted_vehicles) ==
    SearchResult(sorted_vehicles, Len(sorted_vehicles), EmptyInfo, <<>>)

\* main.py:545-575: without search filters get_data answers with the
\* listing, otherwise it calls search_with_fallback
GetDataDispatch ==
    /\ pc = "get_data"
    /\ \E search \in {has_search_filters(filters, valormax, anomax, kmmax)} :
          /\ pc' = IF search THEN "strict" ELSE "done"
          /\ stage' = IF search THEN stage ELSE "listing"
          /\ result' = IF search THEN result
                       ELSE ListingResult(ListInventory(vehicles, excluded_ids))
    /\ UNCHANGED <<vehicles, filters, valormax, anomax, kmmax, excluded_ids,
                   current_filters, removed_filters, current_valormax, current_anomax,
                   current_kmmax, range_i, filter_i, attempts, removals>>
    /\ UNCHANGED <<refresh_vars, stage_vars>>

\* a request whose snapshot is loaded and whose query is parsed
\* (main.py:523-550): any filters, range bounds and excluded ids
InitGetData ==
    /\ vehicles \in Snapshots
    /\ filters \in FilterSets
    /\ valormax \in ValorMaxValues
    /\ anomax \in AnoMaxValues
    /\ kmmax \in KmMaxValues
    /\ excluded_ids \in ExcludedSets
    /\ pc = "get_data"
    /\ current_filters = filters
    /\ removed_filters = <<>>
    /\ current_valormax = valormax
    /\ current_anomax = anomax
    /\ current_kmmax = kmmax
    /\ range_i = 1
    /\ filter_i = 1
    /\ result = NoResult
    /\ stage = "running"
    /\ attempts = <<>>
    /\ removals = <<>>
    /\ data_json = FileWith(json_dump(EstoqueData(vehicles)))
    /\ refresh_pc = "idle"
    /\ fetcher_data = EstoqueData(vehicles)
    /\ refreshes = 0
    /\ request_pc = "search"
    /\ response = NoResponse
    /\ published = {vehicles}
    /\ stage_in = <<>>
    /\ stage_out = <<>>

NextGetData ==
    \/ GetDataDispatch
    \/ StrictAttempt
    \/ SingleFilterCheck
    \/ ModelProbe
    \/ RangeStep
    \/ FilterStep
    \/ Exhausted

SpecGetData == InitGetData /\ [][NextGetData]_vars

(***************************************************************************)
(* One attempt (main.py:274-284), stage by stage                           *)
(***************************************************************************)
\* main.py:274: filtered_vehicles = self.apply_filters(vehicles, filters)
StageFilters ==
    /\ pc = "attempt"
    /\ stage_in' = vehicles
    /\ stage_out' = apply_filters(vehicles, filters)
    /\ pc' = "filters_applied"
    /\ UNCHANGED <<vehicles, filters, valormax, anomax, kmmax, excluded_ids,
                   current_filters, removed_filters, current_valormax, current_anomax,
                   current_kmmax, range_i, filter_i, result, stage, attempts, removals>>
    /\ UNCHANGED refresh_vars

\* main.py:178-187: the price ceiling of apply_range_filters
StagePrice ==
    /\ pc = "filters_applied"
    /\ stage_in' = stage_out
    /\ stage_out' = PriceStage(stage_out, valormax)
    /\ pc' = "price_applied"
    /\ UNCHANGED <<vehicles, filters, valormax, anomax, kmmax, excluded_ids,
                   current_filters, removed_filters, current_valormax, current_anomax,
                   current_kmmax, range_i, filter_i, result, stage, attempts, removals>>
    /\ UNCHANGED refresh_vars

\* main.py:190-202: the year floor of apply_range_filters
StageYear ==
    /\ pc = "price_applied"
    /\ stage_in' = stage_out
    /\ stage_out' = YearStage(stage_out, anomax)
    /\ pc' = "year_applied"
    /\ UNCHANGED <<vehicles, filters, valormax, anomax, kmmax, excluded_ids,
                   current_filters, removed_filters, current_valormax, current_anomax,
                   current_kmmax, range_i, filter_i, result, stage, attempts, removals>>
    /\ UNCHANGED refresh_vars

\* main.py:205-233: the mileage band of apply_range_filters
StageKm ==
    /\ pc = "year_applied"
    /\ stage_in' = stage_out
    /\ stage_out' = KmStage(stage_out, kmmax)
    /\ pc' = "km_applied"
    /\ UNCHANGED <<vehicles, filters, valormax, anomax, kmmax, excluded_ids,
                   current_filters, removed_filters, current_valormax, current_anomax,
                   current_kmmax, range_i, filter_i, result, stage, attempts, removals>>
    /\ UNCHANGED refresh_vars

\* main.py:277-281: the excluded ids
StageExclude ==
    /\ pc = "km_applied"
    /\ stage_in' = stage_out
    /\ stage_out' = Exclude(stage_out, excluded_ids)
    /\ pc' = "excluded"
    /\ UNCHANGED <<vehicles, filters, valormax, anomax, kmmax, excluded_ids,
                   current_filters, removed_filters, current_valormax, current_anomax,
                   current_kmmax, range_i, filter_i, result, stage, attempts, removals>>
    /\ UNCHANGED refresh_vars

\* main.py:283-284: a non-empty list is sorted
StageSort ==
    /\ pc = "excluded"
    /\ stage_out # <<>>
    /\ stage_in' = stage_out
    /\ stage_out' = sort_vehicles(stage_out, valormax, anomax, kmmax)
    /\ pc' = "sorted"
    /\ UNCHANGED <<vehicles, filters, valormax, anomax, kmmax, excluded_ids,
                   current_filters, removed_filters, current_valormax, current_anomax,
                   current_kmmax, range_i, filter_i, result, stage, attempts, removals>>
    /\ UNCHANGED refresh_vars

\* the arguments of an attempt: a snapshot, filters, range bounds that are
\* missing, numbers or text that is no number, and excluded ids
InitStages ==
    /\ vehicles \in Snapshots
    /\ filters \in FilterSets
    /\ valormax \in StageValorMaxValues
    /\ anomax \in StageAnoMaxValues
    /\ kmmax \in StageKmMaxValues
    /\ excluded_ids \in ExcludedSets
    /\ pc = "attempt"
    /\ current_filters = filters
    /\ removed_filters = <<>>
    /\ current_valormax = valormax
    /\ current_anomax = anomax
    /\ current_kmmax = kmmax
    /\ range_i = 1
    /\ filter_i = 1
    /\ result = NoResult
    /\ stage = "running"
    /\ attempts = <<>>
    /\ removals = <<>>
    /\ data_json = FileWith(json_dump(EstoqueData(vehicles)))
    /\ refresh_pc = "idle"
    /\ fetcher_data = EstoqueData(vehicles)
    /\ refreshes = 0
    /\ request_pc = "search"
    /\ response = NoResponse
    /\ published = {vehicles}
    /\ stage_in = <<>>
    /\ stage_out = <<>>

NextStages ==
    \/ StageFilters
    \/ StagePrice
    \/ StageYear
    \/ StageKm
    \/ StageExclude
    \/ StageSort

SpecStages == InitStages /\ [][NextStages]_vars

\* apply_filters alone: a snapshot and the filters of a query, no range
\* bound and no excluded id
InitApplyFilters ==
    /\ valormax = None
    /\ anomax = None
    /\ kmmax = None
    /\ excluded_ids = {}
    /\ InitStages

NextApplyFilters == StageFilters

SpecApplyFilters == InitApplyFilters /\ [][NextApplyFilters]_vars

(***************************************************************************)
(* Properties of search_with_fallback                                      *)
(***************************************************************************)
RangeNames == {"KmMax", "AnoMax", "ValorMax"}
FilterNames == {"veiculo", "placa", "cor", "ano", "km", "valorIdealVenda"}

\* the names of the entries of a removed-filter list, in order
Names(removed) == [i \in 1..Len(removed) |-> removed[i].name]

\* the entries the range stage and the filter stage appended
RangeRemoved == SelectSeq(removed_filters, LAMBDA e : e.name \in RangeNames)
FilterRemoved == SelectSeq(removed_filters, LAMBDA e : e.name \in FilterNames /\ ~e.bracket)
ProbeRemoved == SelectSeq(removed_filters, LAMBDA e : e.bracket)

IsPrefix(a, b) == Len(a) <= Len(b) /\ SubSeq(b, 1, Len(a)) = a

\* the retries the model probe made (0 or 1): those made with every range
\* bound of the query still in place
ProbeRetries ==
    IF ProbeRemoved # <<>> /\ WithoutKey(filters, "veiculo") # <<>> THEN 1 ELSE 0

\* the configuration search_with_fallback holds now, attempted afresh
CurrentAttempt ==
    Attempt(vehicles, current_filters, current_valormax, current_anomax, current_kmmax,
            excluded_ids)

\* the strict configuration, attempted afresh
StrictConfigAttempt == Attempt(vehicles, filters, valormax, anomax, kmmax, excluded_ids)

ConfigUntouched ==
    /\ current_filters = filters
    /\ current_valormax = valormax
    /\ current_anomax = anomax
    /\ current_kmmax = kmmax
    /\ removed_filters = <<>>
    /\ removals = <<>>
    /\ attempts = <<>>

\* C1: once the strict attempt of a query with exactly one filter, not
\* veiculo, has found nothing, the call returns the empty result with
\* reason single_filter_not_model and no removed filter, and nothing was
\* relaxed or retried, whatever range bounds were supplied.
C1_SingleFilterStops ==
    (/\ Len(filters) = 1
     /\ ~HasKey(filters, "veiculo")
     /\ pc \notin {"strict", "single"}
     /\ stage # "strict")
    => /\ pc = "done"
       /\ stage = "single"
       /\ result.vehicles = <<>>
       /\ result.total_found = 0
       /\ result.fallback_info.no_fallback_reason = "single_filter_not_model"
       /\ ~result.fallback_info.fallback
       /\ result.removed_filters = <<>>
       /\ ConfigUntouched

C1_Witness ==
    /\ pc = "done"
    /\ stage = "single"
    /\ Truthy(kmmax) /\ Truthy(anomax) /\ Truthy(valormax)
    /\ vehicles # <<>>

\* C2 as stated: once the filter stage has removed a filter, at least 2
\* filters are still active.
C2_AsStated == FilterRemoved # <<>> => Len(current_filters) >= 2

\* C2, amended: the filter stage removes a filter only while at least 2
\* filters are active, so at least 1 filter is still active after each
\* removal (it may relax down to a single filter, never to none).
C2_RemovesOnlyFromTwo ==
    [][(pc = "filter" /\ Len(removed_filters') > Len(removed_filters))
          => (/\ Len(current_filters) >= 2
              /\ Len(current_filters') = Len(current_filters) - 1
              /\ Len(current_filters') >= 1)]_vars

C2_Witness ==
    /\ FilterRemoved # <<>>
    /\ Len(current_filters) = 1
    /\ Len(filters) >= 2

\* C3 as stated: every non-empty result of a query whose model filter
\* matches no record of the collection lists veiculo(<value>) as removed in
\* its fallback-info, with reason model_not_found_in_database.
C3_AsStated ==
    (/\ pc = "done"
     /\ HasKey(filters, "veiculo")
     /\ ~model_exists_in_database(vehicles, ValueOf(filters, "veiculo"))
     /\ result.vehicles # <<>>)
    => /\ result.fallback_info.fallback
       /\ \E i \in 1..Len(result.fallback_info.removed_filters) :
             result.fallback_info.removed_filters[i]
                = RemovedModel(ValueOf(filters, "veiculo"))
       /\ result.fallback_info.reason = "model_not_found_in_database"

\* the order the claims name for the range bounds
ClaimedRangeOrder == <<"KmMax", "AnoMax", "ValorMax">>

Supplied(name) ==
    CASE name = "KmMax" -> Truthy(kmmax)
      [] name = "AnoMax" -> Truthy(anomax)
      [] name = "ValorMax" -> Truthy(valormax)

\* the range bounds of the query, in the claimed order
SuppliedInOrder == SelectSeq(ClaimedRangeOrder, Supplied)

\* the value a bound holds after the first n supplied bounds were cleared
BoundAfter(name, original, n) ==
    IF \E i \in 1..n : SuppliedInOrder[i] = name THEN None ELSE original

\* C4: the range stage clears the supplied bounds one at a time in the
\* order KmMax, AnoMax, ValorMax; each retry runs the unchanged filters
\* with the remaining bounds; the first retry that finds a record is
\* returned with every removal so far, in order, and no later bound is
\* cleared; when none finds a record every supplied bound ends cleared.
C4_RangeRelaxation ==
    LET n == Len(RangeRemoved)
        p == ProbeRetries
    IN  /\ IsPrefix(Names(RangeRemoved), SuppliedInOrder)
        /\ current_kmmax = BoundAfter("KmMax", kmmax, n)
        /\ current_anomax = BoundAfter("AnoMax", anomax, n)
        /\ current_valormax = BoundAfter("ValorMax", valormax, n)
        /\ Len(attempts) >= p + n
        /\ \A j \in 1..n :
              /\ attempts[p + j].filters =
                    (IF ProbeRemoved # <<>> THEN WithoutKey(filters, "veiculo")
                     ELSE filters)
              /\ attempts[p + j].kmmax = BoundAfter("KmMax", kmmax, j)
              /\ attempts[p + j].anomax = BoundAfter("AnoMax", anomax, j)
              /\ attempts[p + j].valormax = BoundAfter("ValorMax", valormax, j)
              /\ attempts[p + j].hit = (stage = "range" /\ j = n)
        /\ (pc \in {"filter", "exhausted"} \/ stage \in {"filter", "exhausted"})
              => Names(RangeRemoved) = SuppliedInOrder
        /\ stage = "range"
              => /\ pc = "done"
                 /\ Len(attempts) = p + n
                 /\ n >= 1
                 /\ result.vehicles # <<>>
                 /\ result.fallback_info = FallbackInfo(removed_filters)
                 /\ result.removed_filters = removed_filters
                 /\ Names(removed_filters) = removals
                 /\ FilterRemoved = <<>>

C4_Witness ==
    /\ stage = "range"
    /\ Names(RangeRemoved) = <<"KmMax", "AnoMax">>
    /\ Truthy(valormax)
    /\ current_valormax = valormax

\* C5: when the strict configuration yields a record the call returns it
\* at once: empty fallback_info, no removed filter, nothing relaxed or
\* retried.
C5_StrictReturnsDirectly ==
    (pc # "strict" /\ StrictConfigAttempt # <<>>)
    => /\ pc = "done"
       /\ stage = "strict"
       /\ result.vehicles # <<>>
       /\ result.total_found = Len(StrictConfigAttempt)
       /\ result.fallback_info = EmptyInfo
       /\ result.removed_filters = <<>>
       /\ ConfigUntouched

C5_Witness ==
    /\ pc = "done"
    /\ stage = "strict"
    /\ Len(filters) >= 2
    /\ Truthy(kmmax)
    /\ excluded_ids # {}

\* C6: when no configuration found a record and the single-filter rule did
\* not apply, the result is empty: no vehicles, total_found 0, empty
\* fallback_info, and removed_filters naming every removal in order.
C6_ExhaustedResult ==
    (/\ pc = "done"
     /\ stage \notin {"strict", "single"}
     /\ \A i \in 1..Len(attempts) : ~attempts[i].hit)
    => /\ stage = "exhausted"
       /\ result.vehicles = <<>>
       /\ result.total_found = 0
       /\ result.fallback_info = EmptyInfo
       /\ Names(result.removed_filters) = removals
       /\ Len(result.removed_filters) = Len(attempts) + Len(ProbeRemoved) - ProbeRetries

C6_Witness ==
    /\ pc = "done"
    /\ stage = "exhausted"
    /\ Len(removals) >= 3
    /\ ProbeRemoved # <<>>

\* C7: every result holds at most 6 vehicles, the first 6 of the sorted
\* winning set, and total_found is the size of that set.
C7_CappedAtSix ==
    pc = "done"
    => /\ Len(result.vehicles) <= 6
       /\ Len(result.vehicles) = Min(6, result.total_found)
       /\ stage \in {"strict", "probe", "range", "filter"}
             => LET winning == sort_vehicles(CurrentAttempt, current_valormax,
                                             current_anomax, current_kmmax)
                IN  /\ result.total_found = Len(winning)
                    /\ result.vehicles = SubSeq(winning, 1, Min(6, Len(winning)))

C7_Witness ==
    /\ pc = "done"
    /\ stage \in {"probe", "range", "filter"}
    /\ result.total_found > 6
    /\ Len(result.vehicles) = 6

\* the steps search_with_fallback has left at most
StepsLeft ==
    CASE pc = "strict" -> 13
      [] pc = "single" -> 12
      [] pc = "probe" -> 11
      [] pc = "range" -> 11 - range_i
      [] pc = "filter" -> 7 - filter_i
      [] pc = "exhausted" -> 1
      [] OTHER -> 0

\* C8: every call returns (a step is always possible until it has
\* returned, and every step brings the return nearer), and it makes at most
\* |filters| + |ranges| retries after the strict attempt.
C8_TerminatesWithinBound ==
    /\ [](Len(attempts) <= Len(filters) + ActiveRanges(valormax, anomax, kmmax))
    /\ [](pc # "done" => ENABLED Next)
    /\ [](pc = "done" => stage # "running")
    /\ [][StepsLeft' < StepsLeft]_vars

C8_Witness ==
    /\ pc = "done"
    /\ Len(filters) >= 3
    /\ ActiveRanges(valormax, anomax, kmmax) = 3
    /\ Len(attempts) = Len(filters) + 3 - 1

\* the filters and range bounds a configuration holds
ActiveCount(cf, vmax, amax, kmax) == Len(cf) + ActiveRanges(vmax, amax, kmax)

\* C9: each relaxation step removes exactly one filter or range bound that
\* was active; the removed list only grows, by that one entry, and holds no
\* duplicate; what was removed is in no later configuration.
C9_Monotone ==
    [][/\ IsPrefix(removed_filters, removed_filters')
       /\ Len(removed_filters') <= Len(removed_filters) + 1
       /\ ActiveCount(current_filters', current_valormax', current_anomax',
                      current_kmmax')
             = ActiveCount(current_filters, current_valormax, current_anomax,
                           current_kmmax)
                 - (Len(removed_filters') - Len(removed_filters))
       /\ Keys(current_filters') \subseteq Keys(current_filters)
       /\ ~Truthy(current_kmmax) => ~Truthy(current_kmmax')
       /\ ~Truthy(current_anomax) => ~Truthy(current_anomax')
       /\ ~Truthy(current_valormax) => ~Truthy(current_valormax')
       /\ Len(removed_filters') > Len(removed_filters)
             => LET gone == removed_filters'[Len(removed_filters')].name
                IN  /\ gone \in Keys(current_filters) \cup RangeNames
                    /\ gone \in Keys(current_filters) => gone \notin Keys(current_filters')
                    /\ gone = "KmMax" => Truthy(current_kmmax) /\ ~Truthy(current_kmmax')
                    /\ gone = "AnoMax" => Truthy(current_anomax) /\ ~Truthy(current_anomax')
                    /\ gone = "ValorMax"
                          => Truthy(current_valormax) /\ ~Truthy(current_valormax')
       /\ \A i, j \in 1..Len(removed_filters') :
             removed_filters'[i].name = removed_filters'[j].name => i = j
       /\ Len(attempts') > Len(attempts)
             => LET a == attempts'[Len(attempts')]
                IN  /\ Len(attempts') = Len(attempts) + 1
                    /\ Len(removed_filters') = Len(removed_filters) + 1
                    /\ a.filters = current_filters'
                    /\ a.kmmax = current_kmmax'
                    /\ a.anomax = current_anomax'
                    /\ a.valormax = current_valormax'
                    /\ \A i \in 1..Len(removed_filters') :
                          /\ removed_filters'[i].name \notin Keys(a.filters)
                          /\ removed_filters'[i].name = "KmMax" => ~Truthy(a.kmmax)
                          /\ removed_filters'[i].name = "AnoMax" => ~Truthy(a.anomax)
                          /\ removed_filters'[i].name = "ValorMax" => ~Truthy(a.valormax)
      ]_vars

C9_Witness ==
    /\ pc = "done"
    /\ ProbeRemoved # <<>>
    /\ Len(RangeRemoved) >= 2
    /\ Len(FilterRemoved) >= 2

\* C10: a get_data request that runs while a refresh writes data.json
\* never answers with the load error, and the vehicles it goes on to
\* search are a snapshot that was written in full: the one data.json held
\* before the refresh or the one the refresh writes.
C10_AtomicSwap ==
    /\ request_pc = "responded" => response.status # 500
    /\ request_pc = "search" => vehicles \in published

(***************************************************************************)
(* Properties of get_data and of the stages of an attempt                  *)
(***************************************************************************)
\* C11: no record whose sequencia, as a string, is in the excluded ids is
\* in a result, whatever path returned it: the strict attempt, the probe's
\* retry, a range or filter relaxation, or the whole-inventory listing.
C11_ExcludedNeverReturned ==
    pc = "done"
    => \A i \in 1..Len(result.vehicles) : IdOf(result.vehicles[i]) \notin excluded_ids

\* a relaxed result that would hold an excluded record but for the
\* exclusion
C11_Witness ==
    /\ pc = "done"
    /\ stage \in {"probe", "range", "filter"}
    /\ result.vehicles # <<>>
    /\ \E i \in 1..Len(vehicles) :
          /\ IdOf(vehicles[i]) \in excluded_ids
          /\ apply_range_filters(apply_filters(<<vehicles[i]>>, current_filters),
                                 current_valormax, current_anomax, current_kmmax) # <<>>

\* C17: a query with no filter and no range bound is answered with the
\* whole snapshot minus the excluded ids, by price descending (a missing
\* price counting as 0), not capped, its total the number of records
\* returned, with no fallback data, and search_with_fallback is not called;
\* a query with a filter or a range bound is never answered that way.
C17_NoFilterListing ==
    /\ (/\ pc # "get_data"
        /\ filters = <<>>
        /\ ~Truthy(valormax) /\ ~Truthy(anomax) /\ ~Truthy(kmmax))
       => /\ pc = "done"
          /\ stage = "listing"
          /\ ConfigUntouched
          /\ {result.vehicles[i] : i \in 1..Len(result.vehicles)}
                = {vehicles[i] : i \in {j \in 1..Len(vehicles) :
                                           IdOf(vehicles[j]) \notin excluded_ids}}
          /\ Len(result.vehicles)
                = Cardinality({j \in 1..Len(vehicles) : IdOf(vehicles[j]) \notin excluded_ids})
          /\ \A i, j \in 1..Len(result.vehicles) :
                i < j => OrZero(PriceOf(result.vehicles[i]))
                            >= OrZero(PriceOf(result.vehicles[j]))
          /\ result.total_found = Len(result.vehicles)
          /\ result.fallback_info = EmptyInfo
          /\ result.removed_filters = <<>>
    /\ stage = "listing"
       => filters = <<>> /\ ~Truthy(valormax) /\ ~Truthy(anomax) /\ ~Truthy(kmmax)

\* a listing longer than the cap of the engine
C17_Witness == stage = "listing" /\ Len(result.vehicles) > 6

\* the parsed mileages of the records of a list
ParsedKms(vs) == {KmOf(vs[i]).v : i \in {j \in 1..Len(vs) : KmOf(vs[j]).ok}}

\* the mileage stage has acted on candidates whose smallest parsed mileage
\* lies above the requested kmmax
KmBelowMinimum ==
    /\ pc = "km_applied"
    /\ Truthy(kmmax)
    /\ IntOf(kmmax).ok
    /\ ParsedKms(stage_in) # {}
    /\ IntOf(kmmax).v < SetMin(ParsedKms(stage_in))

\* C12 as stated: whenever kmmax is below the smallest parsed mileage of
\* the candidates, the mileage stage keeps a record of that smallest
\* mileage, however far above kmmax it lies.
C12_AsStated ==
    KmBelowMinimum
    => \E i \in 1..Len(stage_out) :
          /\ KmOf(stage_out[i]).ok
          /\ KmOf(stage_out[i]).v = SetMin(ParsedKms(stage_in))

\* C13 as stated: when kmmax is below the smallest parsed mileage m of the
\* candidates, the mileage stage keeps exactly the records whose parsed
\* mileage lies in [m, m + 30000], and the sorted list starts with a record
\* of mileage m.
C13_AsStated ==
    /\ KmBelowMinimum
       => LET m == SetMin(ParsedKms(stage_in))
          IN  stage_out = SelectSeq(stage_in, LAMBDA v :
                              /\ KmOf(v).ok
                              /\ m <= KmOf(v).v
                              /\ KmOf(v).v <= m + 30000)
    /\ (/\ pc = "sorted"
        /\ Truthy(kmmax)
        /\ IntOf(kmmax).ok
        /\ ParsedKms(stage_out) # {}
        /\ IntOf(kmmax).v < SetMin(ParsedKms(stage_out)))
       => /\ KmOf(stage_out[1]).ok
          /\ KmOf(stage_out[1]).v = SetMin(ParsedKms(stage_out))

\* the price stage has acted with a ceiling that is a number
PriceCeilingApplied ==
    /\ pc = "price_applied"
    /\ Truthy(valormax)
    /\ FloatOf(valormax).ok

\* C14: for a price ceiling V that parses, the price stage keeps a record
\* exactly when its parsed price is at most V + 25000 (prices in
\* hundredths); so a record priced exactly V, stored as a number or as a
\* formatted string, is never dropped.
C14_PriceCeiling ==
    PriceCeilingApplied
    => LET V == FloatOf(valormax).v
       IN  /\ stage_out = SelectSeq(stage_in, LAMBDA v :
                              PriceOf(v).ok /\ PriceOf(v).v <= V + 2500000)
           /\ \A i \in 1..Len(stage_in) :
                 (PriceOf(stage_in[i]).ok /\ PriceOf(stage_in[i]).v = V)
                 => \E j \in 1..Len(stage_out) : stage_out[j] = stage_in[i]

\* records priced exactly V in both forms are kept, one between V and
\* V + 25000 is kept and one above V + 25000 is dropped
C14_Witness ==
    /\ PriceCeilingApplied
    /\ \E i, j \in 1..Len(stage_out) :
          /\ stage_out[i].valorIdealVenda.t = "int"
          /\ stage_out[j].valorIdealVenda.t = "str"
          /\ PriceOf(stage_out[i]).v = FloatOf(valormax).v
          /\ PriceOf(stage_out[j]).v = FloatOf(valormax).v
    /\ \E i \in 1..Len(stage_out) : PriceOf(stage_out[i]).v > FloatOf(valormax).v
    /\ Len(stage_out) < Len(stage_in)

\* C15 as stated: with kmmax supplied the sorted list is ascending by
\* parsed mileage: a record with a parsed mileage, 0 included, precedes
\* every record with a larger parsed mileage, and the records without a
\* parsed mileage are last.
C15_AsStated ==
    (pc = "sorted" /\ Truthy(kmmax))
    => \A i, j \in 1..Len(stage_out) :
          /\ (KmOf(stage_out[i]).ok /\ KmOf(stage_out[j]).ok
                 /\ KmOf(stage_out[i]).v < KmOf(stage_out[j]).v) => i < j
          /\ (KmOf(stage_out[i]).ok /\ ~KmOf(stage_out[j]).ok) => i < j

\* the orderings the claims name, as relations between two records
MileageAscending(a, b) ==
    \/ ~KmOf(b).ok
    \/ KmOf(a).ok /\ KmOf(a).v <= KmOf(b).v

PriceDistanceAscending(a, b, V) ==
    Abs(OrZero(PriceOf(a)) - V) <= Abs(OrZero(PriceOf(b)) - V)

YearDistanceAscending(a, b, Y) ==
    Abs(OrZero(YearOf(a)) - Y) <= Abs(OrZero(YearOf(b)) - Y)

PriceDescending(a, b) == OrZero(PriceOf(a)) >= OrZero(PriceOf(b))

\* C16 as stated: the sorted list is in the order of the first rule that
\* applies: mileage ascending if kmmax was supplied; else ascending
\* |price - valormax| if valormax was supplied and parses; else ascending
\* |year - anomax| if anomax was supplied and parses; else price
\* descending, a missing price counting as 0; and it holds the records it
\* was given.
C16_AsStated ==
    pc = "sorted"
    => /\ Len(stage_out) = Len(stage_in)
       /\ {stage_out[i] : i \in 1..Len(stage_out)} = {stage_in[i] : i \in 1..Len(stage_in)}
       /\ \A i, j \in 1..Len(stage_out) :
             i < j
             => IF Truthy(kmmax)
                THEN MileageAscending(stage_out[i], stage_out[j])
                ELSE IF Truthy(valormax) /\ FloatOf(valormax).ok
                THEN PriceDistanceAscending(stage_out[i], stage_out[j], FloatOf(valormax).v)
                ELSE IF Truthy(anomax) /\ IntOf(anomax).ok
                THEN YearDistanceAscending(stage_out[i], stage_out[j], IntOf(anomax).v)
                ELSE PriceDescending(stage_out[i], stage_out[j])

\* the orders in which n filters can be iterated
IterationOrders == [n \in 0..Len(FilterKeys) |->
                       {p \in [1..n -> 1..n] : \A i, j \in 1..n : p[i] = p[j] => i = j}]

\* the records of vs that the one filter e lets through
MatchesOf(vs, e) == {v \in {vs[i] : i \in 1..Len(vs)} :
                        \E i \in 1..Len(apply_filters(vs, <<e>>)) :
                            apply_filters(vs, <<e>>)[i] = v}

\* C19: the result of apply_filters holds, in the input's order and
\* unaltered, exactly the input records that every single filter lets
\* through (the intersection of the per-filter matches), and iterating the
\* filters in any other order gives the same result.
C19_SubsetAndOrderFree ==
    pc = "filters_applied"
    => /\ stage_out = SelectSeq(stage_in, LAMBDA v :
                          \A k \in 1..Len(filters) : v \in MatchesOf(stage_in, filters[k]))
       /\ \A p \in IterationOrders[Len(filters)] :
             apply_filters(stage_in, [k \in 1..Len(filters) |-> filters[p[k]]]) = stage_out

\* two filters that each drop a record the other keeps, some record passing both
C19_Witness ==
    /\ pc = "filters_applied"
    /\ stage_out # <<>>
    /\ \E a, b \in 1..Len(filters) :
          /\ MatchesOf(stage_in, filters[a]) \ MatchesOf(stage_in, filters[b]) # {}
          /\ MatchesOf(stage_in, filters[b]) \ MatchesOf(stage_in, filters[a]) # {}

(***************************************************************************)
(* get_data loading a data.json of any content                             *)
(***************************************************************************)
\* contents of data.json that are JSON of another shape
ListDocument(vs) == <<Chunk("[")>> \o DumpList(vs) \o <<Chunk("]")>>
ScalarDocument == <<Chunk("scalar")>>
EmptyObjectDocument == <<Chunk("{"), Chunk("}")>>
ScalarVeiculosDocument ==
    <<Chunk("{"), Chunk("veiculos"), Chunk(":"), Chunk("scalar"), Chunk("}")>>

\* what data.json may hold when a request arrives: a snapshot written in
\* full, a part of one, or JSON of another shape
Documents ==
    UNION {{SubSeq(json_dump(EstoqueData(vs)), 1, n) :
               n \in 0..Len(json_dump(EstoqueData(vs)))} : vs \in FeedSnapshots}
    \cup {ListDocument(vs) : vs \in FeedSnapshots}
    \cup {ScalarDocument, EmptyObjectDocument, ScalarVeiculosDocument}

InitLoad ==
    /\ data_json \in {NoFile} \cup {FileWith(d) : d \in Documents}
    /\ fetcher_data = EstoqueData(<<>>)
    /\ published = {}
    /\ refresh_pc = "idle"
    /\ refreshes = 0
    /\ request_pc = "idle"
    /\ response = NoResponse
    /\ vehicles = <<>>
    /\ filters = <<>>
    /\ valormax = None
    /\ anomax = None
    /\ kmmax = None
    /\ excluded_ids = {}
    /\ pc = "idle"
    /\ current_filters = <<>>
    /\ removed_filters = <<>>
    /\ current_valormax = None
    /\ current_anomax = None
    /\ current_kmmax = None
    /\ range_i = 1
    /\ filter_i = 1
    /\ result = NoResult
    /\ stage = "running"
    /\ attempts = <<>>
    /\ removals = <<>>
    /\ stage_in = <<>>
    /\ stage_out = <<>>

NextLoad ==
    \/ RequestArrives
    \/ ExistsCheck
    \/ LoadData

SpecLoad == InitLoad /\ [][NextLoad]_vars

\* the content of data.json is structurally invalid: undecodable, a top
\* level that is no mapping, or veiculos that is no list
StructurallyInvalid(text) ==
    \/ ~json_load(text).ok
    \/ ~json_load(text).is_mapping
    \/ json_load(text).has_veiculos /\ ~json_load(text).is_list

\* C18 as stated: a request past its loading step has not crashed; with no
\* data.json it answered with the 'data unavailable' response, with a
\* structurally invalid data.json it answered with the 'invalid data'
\* response, and in both cases it holds no records.
C18_AsStated ==
    request_pc \in {"responded", "search", "crashed"}
    => /\ request_pc # "crashed"
       /\ ~data_json.exists
          => request_pc = "responded" /\ response = NotFoundResponse /\ vehicles = <<>>
       /\ (data_json.exists /\ StructurallyInvalid(data_json.content))
          => request_pc = "responded" /\ response = LoadErrorResponse /\ vehicles = <<>>

(***************************************************************************)
(* Properties of the range expander                                        *)
(***************************************************************************)
\* a bound as the claim reads it: one that is present but is no number
\* counts as absent
FloatOrAbsent(bound) == IF Truthy(bound) /\ ~FloatOf(bound).ok THEN None ELSE bound
IntOrAbsent(bound) == IF Truthy(bound) /\ ~IntOf(bound).ok THEN None ELSE bound

\* C21: a range bound that is present but is no number leaves the list of
\* its stage as it was, and the list apply_range_filters returns is the one
\* it returns when every such bound is absent and the other bounds are as
\* given.
C21_BadBoundSkipped ==
    /\ (pc = "price_applied" /\ Truthy(valormax) /\ ~FloatOf(valormax).ok)
       => stage_out = stage_in
    /\ (pc = "year_applied" /\ Truthy(anomax) /\ ~IntOf(anomax).ok)
       => stage_out = stage_in
    /\ (pc = "km_applied" /\ Truthy(kmmax) /\ ~IntOf(kmmax).ok)
       => stage_out = stage_in
    /\ pc = "km_applied"
       => stage_out = apply_range_filters(apply_filters(vehicles, filters),
                                          FloatOrAbsent(valormax),
                                          IntOrAbsent(anomax),
                                          IntOrAbsent(kmmax))

\* the price ceiling is no number and the year floor, applied after it,
\* drops some records and keeps others
C21_Witness ==
    /\ pc = "year_applied"
    /\ Truthy(valormax) /\ ~FloatOf(valormax).ok
    /\ Truthy(anomax) /\ IntOf(anomax).ok
    /\ stage_out # <<>>
    /\ Len(stage_out) < Len(stage_in)

\* the year stage has acted with a year that is a number
YearFloorApplied ==
    /\ pc = "year_applied"
    /\ Truthy(anomax)
    /\ IntOf(anomax).ok

\* C23: for a requested year Y that parses, the year stage keeps a record
\* exactly when its parsed year is there and is at least Y - 3; a record
\* of a year later than Y is kept.
C23_YearFloor ==
    YearFloorApplied
    => LET Y == IntOf(anomax).v
       IN  /\ stage_out = SelectSeq(stage_in, LAMBDA v :
                              YearOf(v).ok /\ YearOf(v).v >= Y - 3)
           /\ \A i \in 1..Len(stage_in) :
                 (YearOf(stage_in[i]).ok /\ YearOf(stage_in[i]).v > Y)
                 => \E j \in 1..Len(stage_out) : stage_out[j] = stage_in[i]

\* a record later than Y and a record of year Y - 3 written 'YYYY/YYYY'
\* are kept, a record without a year is dropped
C23_Witness ==
    /\ YearFloorApplied
    /\ \E i, j \in 1..Len(stage_out) :
          /\ YearOf(stage_out[i]).v > IntOf(anomax).v
          /\ YearOf(stage_out[j]).v = IntOf(anomax).v - 3
          /\ stage_out[j].ano = StrV(T_2015_16)
    /\ \E i \in 1..Len(stage_in) : ~YearOf(stage_in[i]).ok

\* the mileage stage has acted with a mileage that is a number
KmBandApplied ==
    /\ pc = "km_applied"
    /\ Truthy(kmmax)
    /\ IntOf(kmmax).ok

\* C25: for a requested mileage K that parses, the mileage stage keeps the
\* records whose parsed mileage lies in [L, K + 30000], L being the least
\* parsed mileage of the candidates if that exceeds K and 0 otherwise;
\* records without a parsed mileage are dropped, unless no candidate has
\* one, and then the list is left as it was.
C25_KmBand ==
    KmBandApplied
    => LET K == IntOf(kmmax).v
           L == IF SetMin(ParsedKms(stage_in)) > K THEN SetMin(ParsedKms(stage_in)) ELSE 0
       IN  IF ParsedKms(stage_in) = {} THEN stage_out = stage_in
           ELSE stage_out = SelectSeq(stage_in, LAMBDA v :
                                /\ KmOf(v).ok
                                /\ L <= KmOf(v).v
                                /\ KmOf(v).v <= K + 30000)

\* a record between K and K + 30000 is kept, one above K + 30000 and one
\* without a parsed mileage are dropped
C25_Witness ==
    /\ KmBandApplied
    /\ \E i \in 1..Len(stage_out) : KmOf(stage_out[i]).v > IntOf(kmmax).v
    /\ \E i \in 1..Len(stage_in) : ~KmOf(stage_in[i]).ok
    /\ \E i \in 1..Len(stage_in) :
          KmOf(stage_in[i]).ok /\ KmOf(stage_in[i]).v > IntOf(kmmax).v + 30000

\* no candidate has a parsed mileage and the list is left as it was
C25_WitnessNoMileage ==
    /\ KmBandApplied
    /\ stage_in # <<>>
    /\ ParsedKms(stage_in) = {}
    /\ stage_out = stage_in

(***************************************************************************)
(* Properties of the relaxation engine                                     *)
(***************************************************************************)
\* C22: no step of search_with_fallback changes the record collection
\* (same records, same order, same field values), the caller's filter
\* mapping or the excluded ids.
C22_ArgumentsKept ==
    [][/\ vehicles' = vehicles
       /\ filters' = filters
       /\ excluded_ids' = excluded_ids]_vars

\* a call that dropped a filter from its working dict, relaxed a bound and
\* returned sorted records of a snapshot of several records
C22_Witness ==
    /\ pc = "done"
    /\ FilterRemoved # <<>>
    /\ RangeRemoved # <<>>
    /\ Len(current_filters) < Len(filters)
    /\ Len(vehicles) > 1
    /\ result.vehicles # <<>>

\* the filters the filter stage may remove, in the claimed order
ClaimedFilterOrder == <<"cor", "ano", "km", "veiculo">>

\* the filters the filter stage starts with
FiltersAfterProbe ==
    IF ProbeRemoved # <<>> THEN SelectSeq(filters, LAMBDA e : e.k # "veiculo") ELSE filters

\* C24: the filters removed by the filter stage are, in order, the first
\* ones of cor, ano, km, veiculo that the stage started with: veiculo is
\* removed by it only after every cor, ano and km filter of the query, and
\* never when the probe has already removed it.
C24_FilterPriority ==
    /\ IsPrefix(Names(FilterRemoved),
                SelectSeq(ClaimedFilterOrder, LAMBDA k : HasKey(FiltersAfterProbe, k)))
    /\ ProbeRemoved # <<>>
          => \A i \in 1..Len(FilterRemoved) : FilterRemoved[i].name # "veiculo"
    /\ \A i \in 1..Len(FilterRemoved) :
          FilterRemoved[i].name = "veiculo"
          => \A k \in {"cor", "ano", "km"} :
                HasKey(filters, k) => \E j \in 1..(i - 1) : FilterRemoved[j].name = k

\* the filter stage removed another filter and then veiculo, and the
\* retry without veiculo found records
C24_Witness ==
    /\ pc = "done"
    /\ stage = "filter"
    /\ Len(FilterRemoved) >= 2
    /\ FilterRemoved[Len(FilterRemoved)].name = "veiculo"
    /\ result.vehicles # <<>>

\* C28: for a query with a placa filter, placa is never in the removed
\* list, the filter stays in the configuration, and every returned record
\* passes the plate filter.
C28_PlacaKept ==
    HasKey(filters, "placa")
    => /\ \A i \in 1..Len(removed_filters) : removed_filters[i].name # "placa"
       /\ HasKey(current_filters, "placa")
       /\ ValueOf(current_filters, "placa") = ValueOf(filters, "placa")
       /\ pc = "done"
          => /\ \A i \in 1..Len(result.removed_filters) :
                   result.removed_filters[i].name # "placa"
             /\ \A i \in 1..Len(result.vehicles) :
                   PassesTable["placa"][ValueOf(filters, "placa")][result.vehicles[i].placa]

\* a relaxed result of a query with a placa filter, from a snapshot that
\* also holds a record of another plate
C28_Witness ==
    /\ pc = "done"
    /\ HasKey(filters, "placa")
    /\ FilterRemoved # <<>>
    /\ result.vehicles # <<>>
    /\ \E i \in 1..Len(vehicles) :
          ~PassesTable["placa"][ValueOf(filters, "placa")][vehicles[i].placa]

\* the position of the first entry of the removed list that the filter
\* stage wrote
FirstFilterRemoval ==
    CHOOSE i \in 1..Len(removed_filters) :
        /\ removed_filters[i].name \in FilterNames /\ ~removed_filters[i].bracket
        /\ \A j \in 1..(i - 1) :
              ~(removed_filters[j].name \in FilterNames /\ ~removed_filters[j].bracket)

\* C29: when the removed list names a filter the filter stage removed,
\* every range bound of the query is named earlier in the list, and every
\* retry of the filter stage runs with no range bound.
C29_RangesBeforeFilters ==
    /\ FilterRemoved # <<>>
       => \A n \in 1..Len(SuppliedInOrder) :
             \E i \in 1..(FirstFilterRemoval - 1) :
                removed_filters[i] = RemovedName(SuppliedInOrder[n])
    /\ \A j \in 1..Len(attempts) :
          j > ProbeRetries + Len(RangeRemoved)
          => /\ ~Truthy(attempts[j].valormax)
             /\ ~Truthy(attempts[j].anomax)
             /\ ~Truthy(attempts[j].kmmax)

\* a query with a range bound whose filter stage removed a filter
C29_Witness ==
    /\ pc = "done"
    /\ SuppliedInOrder # <<>>
    /\ FilterRemoved # <<>>
    /\ Len(attempts) > ProbeRetries + Len(RangeRemoved)

\* the configuration attempted before the j-th retry: the strict one
\* before the first
AttemptedBefore(j) ==
    IF j = 1 THEN AttemptRecord(filters, valormax, anomax, kmmax, FALSE)
    ELSE attempts[j - 1]

\* C27 as stated: every retried configuration is the one attempted before
\* it less exactly one filter or range bound; and once the probe has
\* removed the model filter, the first retry runs the filters without
\* veiculo and every range bound of the query, also when veiculo was the
\* only filter.
C27_AsStated ==
    /\ \A j \in 1..Len(attempts) :
          LET before == AttemptedBefore(j)
              a == attempts[j]
          IN  Len(ConfigDiff(before.filters, before.valormax, before.anomax, before.kmmax,
                             a.filters, a.valormax, a.anomax, a.kmmax)) = 1
    /\ (ProbeRemoved # <<>> /\ (pc \in {"range", "filter", "exhausted"} \/ pc = "done"))
       => /\ attempts # <<>>
          /\ attempts[1].filters = SelectSeq(filters, LAMBDA e : e.k # "veiculo")
          /\ attempts[1].valormax = valormax
          /\ attempts[1].anomax = anomax
          /\ attempts[1].kmmax = kmmax

\* is the filter or range bound named in the removed list of the result
NamedRemoved(name) ==
    \E i \in 1..Len(result.removed_filters) : result.removed_filters[i].name = name

\* the filters and range bounds of the query that the result does not
\* name as removed
KeptFilters == SelectSeq(filters, LAMBDA e : ~NamedRemoved(e.k))
KeptValorMax == IF NamedRemoved("ValorMax") THEN None ELSE valormax
KeptAnoMax == IF NamedRemoved("AnoMax") THEN None ELSE anomax
KeptKmMax == IF NamedRemoved("KmMax") THEN None ELSE kmmax

PassesKept(v) ==
    \A i \in 1..Len(KeptFilters) : PassesTable[KeptFilters[i].k][KeptFilters[i].v][v[KeptFilters[i].k]]

WithinPrice(v) ==
    (Truthy(KeptValorMax) /\ FloatOf(KeptValorMax).ok)
    => PriceOf(v).ok /\ PriceOf(v).v <= FloatOf(KeptValorMax).v + 2500000

WithinYear(v) ==
    (Truthy(KeptAnoMax) /\ IntOf(KeptAnoMax).ok)
    => YearOf(v).ok /\ YearOf(v).v >= IntOf(KeptAnoMax).v - 3

\* the candidates the mileage band of the winning configuration is
\* evaluated against
KmCandidates ==
    SelectSeq(vehicles, LAMBDA v : PassesKept(v) /\ WithinPrice(v) /\ WithinYear(v))

WithinKmBand(v) ==
    (Truthy(KeptKmMax) /\ IntOf(KeptKmMax).ok /\ ParsedKms(KmCandidates) # {})
    => LET K == IntOf(KeptKmMax).v
           m == SetMin(ParsedKms(KmCandidates))
       IN  /\ KmOf(v).ok
           /\ (IF m > K THEN m ELSE 0) <= KmOf(v).v
           /\ KmOf(v).v <= K + 30000

\* C26: every record of a returned result is a record of the snapshot, is
\* not excluded, and passes every filter and every range bound of the
\* query that the result's removed list does not name, the mileage band
\* being the one of the candidates of that configuration.
C26_RelaxedSound ==
    pc = "done"
    => \A i \in 1..Len(result.vehicles) :
          LET v == result.vehicles[i]
          IN  /\ \E j \in 1..Len(vehicles) : vehicles[j] = v
              /\ IdOf(v) \notin excluded_ids
              /\ PassesKept(v)
              /\ WithinPrice(v)
              /\ WithinYear(v)
              /\ WithinKmBand(v)

\* a relaxed result that keeps a filter and a range bound and leaves out
\* an excluded record and a record outside the bound
C26_Witness ==
    /\ pc = "done"
    /\ result.removed_filters # <<>>
    /\ KeptFilters # <<>>
    /\ Truthy(KeptValorMax) \/ Truthy(KeptAnoMax) \/ (Truthy(KeptKmMax) /\ IntOf(KeptKmMax).ok)
    /\ excluded_ids # {}
    /\ result.vehicles # <<>>
    /\ \E j \in 1..Len(vehicles) :
          PassesKept(vehicles[j])
          /\ ~(WithinPrice(vehicles[j]) /\ WithinYear(vehicles[j]) /\ WithinKmBand(vehicles[j]))

====
